---- MODULE Spec2Model ----
(***************************************************************************)
(* A model of the High Stakes investor game kernel: key derivation, the    *)
(* TTL cache store, the start / revise / simulate request handlers and the *)
(* seeded number picks.                                                    *)
(*                                                                         *)
(* Conventions.                                                            *)
(*  - A JavaScript string is a sequence of one-character strings.          *)
(*  - An optional value (undefined or a value) is <<>> or <<v>>.           *)
(*  - A uint32 is a pair <<hi, lo>> of 16-bit halves, so that 32-bit       *)
(*    products and XORs are computed with their real width.                *)
(*  - A JavaScript number that comes from the text backend is a record     *)
(*    tagged nan, inf (with a sign) or num (with h, standing for h/2:     *)
(*    halves, so that rounding is real).                                   *)
(*  - The clock counts whole seconds: Date.now() and expiresAt are both    *)
(*    divided by 1000, which leaves every comparison of the two unchanged. *)
(***************************************************************************)
EXTENDS Integers, Sequences, FiniteSets, TLC

(***************************************************************************)
(* Bounds of the model.                                                    *)
(***************************************************************************)
\* Number of debug-random games (randomUUID values) that can be minted.
MaxGames == 2
\* Number of times the clock advances.
MaxTicks == 1
\* Number of requests that are served in one behaviour.
\* The number of calls made on the store in the store specification
MaxStoreOps == 4
\* The number of seconds that pass in the store specification
MaxStoreTicks == 2
MaxCalls == 2

(***************************************************************************)
(* Program constants.                                                      *)
(***************************************************************************)
INVEST_INVENTIONS_PER_DAY == 3
INVEST_VALUATION_MIN_USD == 20000
INVEST_VALUATION_MAX_USD == 500000
INVEST_UNIT_PRICE_MIN_USD == 5
INVEST_UNIT_PRICE_MAX_USD == 5000
INVEST_MIN_UNITS_SOLD == 1
INVEST_MAX_UNITS_SOLD == 1000000
DAILY_TTL_SECONDS == 60 * 60 * 24 * 30
RANDOM_TTL_SECONDS == 60 * 60 * 24
MAX_SUGGESTION_CHARS == 220

(***************************************************************************)
(* Strings.                                                                *)
(***************************************************************************)
\* The printable ASCII characters, code 32 (space) to 126 (the grave accent, code 96,
\* is spelled out: it is not used by any string of the model).
Ascii ==
  <<" ", "!", "\"", "#", "$", "%", "&", "'", "(", ")", "*", "+", ",", "-", ".", "/",
    "0", "1", "2", "3", "4", "5", "6", "7", "8", "9", ":", ";", "<", "=", ">", "?",
    "@", "A", "B", "C", "D", "E", "F", "G", "H", "I", "J", "K", "L", "M", "N", "O",
    "P", "Q", "R", "S", "T", "U", "V", "W", "X", "Y", "Z", "[", "\\", "]", "^", "_",
    "grave", "a", "b", "c", "d", "e", "f", "g", "h", "i", "j", "k", "l", "m", "n", "o",
    "p", "q", "r", "s", "t", "u", "v", "w", "x", "y", "z", "{", "|", "}", "~">>

\* charCodeAt: the code of a printable character; line feed is 10 and tab is 9.
CodeTable ==
  [c \in {Ascii[i] : i \in 1..Len(Ascii)} |->
     31 + (CHOOSE i \in 1..Len(Ascii) : Ascii[i] = c)] @@ <<>>

CharCode(c) ==
  IF c = "\n" THEN 10
  ELSE IF c = "\t" THEN 9
  ELSE CodeTable[c]

\* A character that String.prototype.trim and the regular expression \s treat as white space.
IsSpace(c) == c \in {" ", "\n", "\t", "\r"}

RECURSIVE TrimStart(_)
TrimStart(s) ==
  IF s = <<>> THEN <<>>
  ELSE IF IsSpace(Head(s)) THEN TrimStart(Tail(s))
  ELSE s

RECURSIVE TrimEnd(_)
TrimEnd(s) ==
  IF s = <<>> THEN <<>>
  ELSE IF IsSpace(s[Len(s)]) THEN TrimEnd(SubSeq(s, 1, Len(s) - 1))
  ELSE s

\* String.prototype.trim
Trim(s) == TrimEnd(TrimStart(s))

\* Optional values.
Undefined == <<>>
Some(v) == <<v>>
\* The JavaScript expression (o || d) for an optional string o: undefined and the empty string are both falsy.
OrElse(o, d) == IF o = <<>> \/ o[1] = <<>> THEN d ELSE o[1]
\* The JavaScript expression !o for an optional string.
Falsy(o) == o = <<>> \/ o[1] = <<>>

RECURSIVE DigitsOf(_)
DigitsOf(n) ==
  IF n < 10 THEN <<Ascii[17 + n]>>
  ELSE Append(DigitsOf(n \div 10), Ascii[17 + (n % 10)])

\* String(n) for an integer n, as a template literal formats it.
NumToString(n) == IF n < 0 THEN <<"-">> \o DigitsOf(0 - n) ELSE DigitsOf(n)

(***************************************************************************)
(* 32-bit unsigned arithmetic on <<hi, lo>> pairs.                         *)
(***************************************************************************)
W16 == 65536

U32(hi, lo) == <<hi, lo>>

RECURSIVE Xor16(_, _, _)
Xor16(a, b, bits) ==
  IF bits = 0 THEN 0
  ELSE ((a + b) % 2) + 2 * Xor16(a \div 2, b \div 2, bits - 1)

\* a ^ b on 32-bit patterns
Xor32(a, b) == <<Xor16(a[1], b[1], 16), Xor16(a[2], b[2], 16)>>

\* (a * b) mod 2^16 for 16-bit a and b, without leaving 31 bits
MulMod16(a, b) == ((a * (b % 256)) + ((a * (b \div 256)) % 256) * 256) % W16

\* floor(a * b / 2^16) for 16-bit a and b
MulHigh16(a, b) ==
  LET p1 == a * (b % 256)
      p2 == a * (b \div 256)
  IN  (p2 \div 256) + (((p2 % 256) * 256 + p1) \div W16)

\* Math.imul(a, b) >>> 0: the low 32 bits of the product
Imul32(a, b) ==
  LET lo == MulMod16(a[2], b[2])
      hi == (MulHigh16(a[2], b[2]) + MulMod16(a[1], b[2]) + MulMod16(a[2], b[1])) % W16
  IN  <<hi, lo>>

\* u % m for a uint32 u and 0 < m < 2^23
Mod32(u, m) ==
  LET x1 == u[1] % m
      x2 == (x1 * 256) % m
      x3 == (x2 * 256) % m
  IN  (x3 + (u[2] % m)) % m

(***************************************************************************)
(* JavaScript numbers that come from outside (see the conventions).        *)
(***************************************************************************)
NaN == [t |-> "nan", h |-> 0]
Infinity == [t |-> "inf", h |-> 1]
\* The number n/2
Half(n) == [t |-> "num", h |-> n]
\* The integer n
Num(n) == [t |-> "num", h |-> 2 * n]

\* Number.isFinite
IsFinite(x) == x.t = "num"

\* Math.round of a finite number: halves round towards plus infinity
MathRound(x) == (x.h + 1) \div 2

Max(a, b) == IF a >= b THEN a ELSE b
Min(a, b) == IF a <= b THEN a ELSE b

ClampIntNoUpper(n, min, max) == IF ~IsFinite(n) THEN min ELSE Max(min, MathRound(n))

\* clampInt
ClampInt(n, min, max) ==
  IF ~IsFinite(n) THEN min
  ELSE Max(min, Min(max, MathRound(n)))

(***************************************************************************)
(* Amounts of money beyond 31 bits: natural numbers as sequences of base   *)
(* 1000 digits, the least significant first, zero being the empty one.     *)
(* JavaScript computes them exactly as doubles below 2^53.                 *)
(***************************************************************************)
RECURSIVE BigOf(_)
BigOf(n) == IF n = 0 THEN <<>> ELSE <<n % 1000>> \o BigOf(n \div 1000)

\* big * m + carry, for 0 <= m <= 2000000
RECURSIVE BigTimes(_, _, _)
BigTimes(big, m, carry) ==
  IF m = 0 THEN BigOf(carry)
  ELSE IF big = <<>> THEN BigOf(carry)
  ELSE LET x == big[1] * m + carry
       IN  <<x % 1000>> \o BigTimes(Tail(big), m, x \div 1000)

\* floor(big / d) and big mod d, for 0 < d <= 2000000
RECURSIVE BigDivMod(_, _)
BigDivMod(big, d) ==
  IF big = <<>> THEN [q |-> <<>>, r |-> 0]
  ELSE LET hi == BigDivMod(Tail(big), d)
           x == hi.r * 1000 + big[1]
       IN  [q |-> IF x \div d = 0 /\ hi.q = <<>> THEN <<>> ELSE <<x \div d>> \o hi.q,
            r |-> x % d]

\* a + b + carry
RECURSIVE BigPlus(_, _, _)
BigPlus(a, b, carry) ==
  IF a = <<>> /\ b = <<>> THEN BigOf(carry)
  ELSE LET x == (IF a = <<>> THEN 0 ELSE a[1]) + (IF b = <<>> THEN 0 ELSE b[1]) + carry
       IN  <<x % 1000>> \o BigPlus(IF a = <<>> THEN <<>> ELSE Tail(a),
                                   IF b = <<>> THEN <<>> ELSE Tail(b), x \div 1000)

\* a <= b
RECURSIVE BigLeq(_, _)
BigLeq(a, b) ==
  IF Len(a) # Len(b) THEN Len(a) < Len(b)
  ELSE IF a = <<>> THEN TRUE
  ELSE IF a[Len(a)] # b[Len(b)] THEN a[Len(a)] < b[Len(b)]
  ELSE BigLeq(SubSeq(a, 1, Len(a) - 1), SubSeq(b, 1, Len(b) - 1))

\* Math.max(0, a - b): the digits of a - b - borrow, without leading zeros
RECURSIVE BigMinusDigits(_, _, _)
BigMinusDigits(a, b, borrow) ==
  IF a = <<>> THEN <<>>
  ELSE LET x == a[1] - (IF b = <<>> THEN 0 ELSE b[1]) - borrow
           rest == BigMinusDigits(Tail(a), IF b = <<>> THEN <<>> ELSE Tail(b),
                                  IF x < 0 THEN 1 ELSE 0)
           digit == IF x < 0 THEN x + 1000 ELSE x
       IN  IF digit = 0 /\ rest = <<>> THEN <<>> ELSE <<digit>> \o rest

BigMinus(a, b) == IF BigLeq(a, b) THEN <<>> ELSE BigMinusDigits(a, b, 0)

(***************************************************************************)
(* Key derivation.                                                         *)
(***************************************************************************)

investDailySlateKey(dateKey) == <<"i", "n", "v", ":", "d", "a", "i", "l", "y", ":">> \o dateKey

investRandomSlateKeyShared(gameId) == <<"i", "n", "v", ":", "d", "a", "i", "l", "y", ":">> \o gameId

investRandomSlateKey(gameId) == <<"i", "n", "v", ":", "r", "a", "n", "d", "o", "m", ":">> \o gameId

dailyProfileKey(dateKey) == <<"p", "g", ":", "d", "a", "i", "l", "y", ":">> \o dateKey

randomProfileKey(gameId) == <<"p", "g", ":", "r", "a", "n", "d", "o", "m", ":">> \o gameId

\* The value a key derivation function gives, or the error it throws.
KeyOk(k) == [ok |-> TRUE, key |-> k]
KeyError == [ok |-> FALSE, key |-> <<>>]

\* investSlateKeyFor(mode, gameId, dateKey?): dateKey is an optional string
investSlateKeyFor(mode, gameId, dateKey) ==
  IF mode = "daily"
  THEN IF Falsy(dateKey) THEN KeyError ELSE KeyOk(investDailySlateKey(dateKey[1]))
  ELSE KeyOk(investRandomSlateKey(gameId))

\* profileKeyFor(mode, gameId, dateKey?)
profileKeyFor(mode, gameId, dateKey) ==
  IF mode = "daily"
  THEN IF Falsy(dateKey) THEN KeyError ELSE KeyOk(dailyProfileKey(dateKey[1]))
  ELSE KeyOk(randomProfileKey(gameId))

(***************************************************************************)
(* Seeded picks.                                                           *)
(***************************************************************************)
\* One round of the hash: xor the character code in, multiply by the
\* 32-bit FNV prime 16777619
FnvStep(acc, c) == Imul32(Xor32(acc, U32(0, CharCode(c))), U32(256, 403))

\* The hash of the first n characters of a string, from the 32-bit FNV
\* offset basis 2166136261 (the value of a round is computed before the
\* next round starts)
RECURSIVE FnvFold(_, _)
FnvFold(str, n) ==
  IF n = 0 THEN U32(33052, 40389)
  ELSE CHOOSE r \in {FnvStep(prev, str[n]) : prev \in {FnvFold(str, n - 1)}} : TRUE

\* hash32(seed): a deterministic uint32 of a string
hash32(seed) == FnvFold(seed, Len(seed))

\* The 32-bit patterns of i * 0x9e3779b9 for i = 0, 1, 2
Golden(i) ==
  IF i = 0 THEN U32(0, 0)
  ELSE IF i = 1 THEN U32(40503, 31161)
  ELSE U32(15470, 62322)

\* (Math.imul(h ^ (i * 0x9e3779b9), 1103515245) >>> 0) % m
MixMod(h, i, m) == Mod32(Imul32(Xor32(h, Golden(i)), U32(16838, 20077)), m)



\* pickIn of pickTripletFromBuckets: bucket i (0-based) of three buckets
PickInBucket(h, buckets, i) ==
  LET loRaw == buckets[i + 1][1]
      hiRaw == buckets[i + 1][2]
      lo == Min(loRaw, hiRaw)
      hi == Max(loRaw, hiRaw)
      span == Max(0, hi - lo)
  IN  lo + MixMod(h, i, span + 1)

\* The buckets after slice(0, 3) and padding with the last one (or [0, 0])
PadBucket(raw, k) ==
  IF k <= Len(raw) THEN raw[k]
  ELSE IF Len(raw) = 0 THEN <<0, 0>>
  ELSE raw[Len(raw)]

PadBuckets(raw) == <<PadBucket(raw, 1), PadBucket(raw, 2), PadBucket(raw, 3)>>

pickTripletFromBuckets(seed, buckets) ==
  LET b == PadBuckets(buckets)
      h == hash32(seed)
  IN  <<PickInBucket(h, b, 0), PickInBucket(h, b, 1), PickInBucket(h, b, 2)>>

\* The three buckets makeVariedNumberTriplet cuts [min, max] into
VariedBuckets(min, max) ==
  LET range == Max(1, max - min)
      third == range \div 3
  IN  <<<<min, min + third>>,
        <<min + third + 1, min + 2 * third>>,
        <<min + 2 * third + 1, max>>>>

\* pickIn of makeVariedNumberTriplet
PickInVaried(h, buckets, i) ==
  LET lo == buckets[i + 1][1]
      hi == buckets[i + 1][2]
      span == Max(1, hi - lo)
  IN  lo + MixMod(h, i, span + 1)

makeVariedNumberTriplet(seed, min, max) ==
  LET b == VariedBuckets(min, max)
      h == hash32(seed)
  IN  <<PickInVaried(h, b, 0), PickInVaried(h, b, 1), PickInVaried(h, b, 2)>>

(***************************************************************************)
(* Text helpers.                                                           *)
(***************************************************************************)
IsUpper(c) == LET n == CharCode(c) IN n >= 65 /\ n <= 90
IsLowerLetter(c) == LET n == CharCode(c) IN n >= 97 /\ n <= 122
IsDigit(c) == LET n == CharCode(c) IN n >= 48 /\ n <= 57
IsLetter(c) == IsUpper(c) \/ IsLowerLetter(c)

\* toLowerCase of one character
LowerChar(c) == IF IsUpper(c) THEN Ascii[CharCode(c) + 32 - 31] ELSE c

\* String.prototype.toLowerCase
ToLower(s) == [i \in 1..Len(s) |-> LowerChar(s[i])] \o <<>>

\* The character class [a-z0-9]
IsLowerAlnum(c) == IsLowerLetter(c) \/ IsDigit(c)

\* The maximal runs of TRUE in a sequence of booleans, as <<first, last>>
\* index pairs from left to right
RECURSIVE ScanRuns(_, _, _, _)
ScanRuns(mask, i, start, acc) ==
  IF i > Len(mask)
  THEN IF start > 0 THEN Append(acc, <<start, Len(mask)>>) ELSE acc
  ELSE IF mask[i]
  THEN ScanRuns(mask, i + 1, IF start > 0 THEN start ELSE i, acc)
  ELSE ScanRuns(mask, i + 1, 0, IF start > 0 THEN Append(acc, <<start, i - 1>>) ELSE acc)

RunSpans(mask) == ScanRuns(mask \o <<>>, 1, 0, <<>>)

\* The maximal runs of the characters of s that mask marks, as strings
Runs(s, mask) ==
  LET spans == RunSpans(mask)
  IN  [k \in 1..Len(spans) |-> SubSeq(s, spans[k][1], spans[k][2])] \o <<>>

\* s.split(/\s+/).filter(Boolean): the words of a string
Words(s) == Runs(s, [i \in 1..Len(s) |-> ~IsSpace(s[i])])

\* Array.prototype.join
RECURSIVE JoinUpTo(_, _, _)
JoinUpTo(parts, sep, n) ==
  IF n = 0 THEN <<>>
  ELSE IF n = 1 THEN parts[1]
  ELSE JoinUpTo(parts, sep, n - 1) \o sep \o parts[n]

Join(parts, sep) == JoinUpTo(parts, sep, Len(parts))

\* s.replace(/\s+/g, " ").trim()
CollapseSpaces(s) == Join(Words(s), <<" ">>)

\* s.split(/\r?\n/): the lines of a string (a line may be empty)
Lines(s) ==
  LET breaks == {i \in 1..Len(s) : s[i] = "\n"}
      Nth(k) == CHOOSE i \in breaks : Cardinality({x \in breaks : x < i}) = k - 1
      From(k) == IF k = 1 THEN 1 ELSE Nth(k - 1) + 1
      To(k) == IF k = Cardinality(breaks) + 1 THEN Len(s) ELSE Nth(k) - 1
      Raw(k) == SubSeq(s, From(k), To(k))
      DropCr(l) == IF l # <<>> /\ l[Len(l)] = "\r" THEN SubSeq(l, 1, Len(l) - 1) ELSE l
  IN  [k \in 1..(Cardinality(breaks) + 1) |-> DropCr(Raw(k))] \o <<>>

\* The test /^[a-z][a-z0-9 _-]{0,18}\s*:\s*\S+/i on a trimmed line
IsLabelChar(c) == IsLetter(c) \/ IsDigit(c) \/ c \in {" ", "_", "-"}

IsLabelLineNever(line) == FALSE

IsLabelLine(line) ==
  /\ Len(line) >= 3
  /\ IsLetter(line[1])
  /\ \E p \in 2..Len(line) :
       /\ line[p] = ":"
       /\ \E q \in (p + 1)..Len(line) :
            /\ ~IsSpace(line[q])
            /\ \A r \in (p + 1)..(q - 1) : IsSpace(line[r])
       /\ \E k \in 0..18 :
            /\ k + 1 <= p - 1
            /\ \A r \in 2..(k + 1) : IsLabelChar(line[r])
            /\ \A r \in (k + 2)..(p - 1) : IsSpace(line[r])

\* line.replace(/^[-*\u2022]+\s+/, ""): the bullet character is written "@"
\* here, a character that is given no other meaning
IsBullet(c) == c \in {"-", "*", "@"}

StripBullet(line) ==
  LET n == IF \E j \in 0..Len(line) : (\A k \in 1..j : IsBullet(line[k]))
                                      /\ (j = Len(line) \/ ~IsBullet(line[j + 1]))
           THEN CHOOSE j \in 0..Len(line) : (\A k \in 1..j : IsBullet(line[k]))
                                      /\ (j = Len(line) \/ ~IsBullet(line[j + 1]))
           ELSE 0
      rest == SubSeq(line, n + 1, Len(line))
  IN  IF n >= 1 /\ rest # <<>> /\ IsSpace(rest[1]) THEN TrimStart(rest) ELSE line

IsTerminator(c) == c \in {".", "!", "?"}

\* s.match(/[^.!?]+[.!?]+|[^.!?]+$/g).map(trim).filter(Boolean)
Sentences(s) ==
  LET spans == RunSpans([i \in 1..Len(s) |-> ~IsTerminator(s[i])])
      EndOf(k) == IF k = Len(spans) THEN Len(s) ELSE spans[k + 1][1] - 1
      all == [k \in 1..Len(spans) |-> Trim(SubSeq(s, spans[k][1], EndOf(k)))] \o <<>>
  IN  SelectSeq(all, LAMBDA x : x # <<>>)

\* sanitizePitch: label lines and bullets removed, white space collapsed,
\* the first keep sentences kept
SanitizePitchN(input, keep) ==
  LET s0 == Trim(input)
      ls == Lines(s0)
      trimmed == [k \in 1..Len(ls) |-> Trim(ls[k])] \o <<>>
      kept == SelectSeq(trimmed, LAMBDA l : ~IsLabelLine(l))
      plain == [k \in 1..Len(kept) |-> StripBullet(kept[k])] \o <<>>
      s1 == CollapseSpaces(Join(plain, <<" ">>))
      sents == Sentences(s1)
  IN  IF s0 = <<>> THEN <<>>
      ELSE Trim(Join(SubSeq(sents, 1, Min(keep, Len(sents))), <<" ">>))

sanitizePitchThree(input) == SanitizePitchN(input, 3)

sanitizePitch(input) == SanitizePitchN(input, 2)

\* normalizeWord: lower case, everything but [a-z0-9] removed
normalizeWord(s) == SelectSeq(ToLower(s), IsLowerAlnum)

\* descriptorBannedWords: the normalized words of three or more characters
\* of both descriptors
descriptorBannedWords(descriptors) ==
  LET WordsOf(d) == Runs(ToLower(d), [i \in 1..Len(d) |-> IsLowerAlnum(LowerChar(d[i]))])
      all == WordsOf(descriptors[1]) \o WordsOf(descriptors[2])
  IN  {normalizeWord(all[k]) : k \in {j \in 1..Len(all) : Len(normalizeWord(all[j])) >= 3}}

FallbackFirst ==
  <<<<"N", "i", "m", "b", "u", "s">>,
    <<"B", "e", "a", "c", "o", "n">>,
    <<"C", "o", "p", "p", "e", "r">>,
    <<"O", "r", "b", "i", "t">>,
    <<"L", "a", "t", "c", "h">>,
    <<"K", "e", "t", "t", "l", "e">>,
    <<"Q", "u", "i", "v", "e", "r">>,
    <<"S", "p", "r", "o", "c", "k", "e", "t">>,
    <<"C", "i", "v", "i", "c">>,
    <<"P", "o", "c", "k", "e", "t">>,
    <<"V", "e", "l", "v", "e", "t">>,
    <<"S", "i", "g", "n", "a", "l">>,
    <<"R", "i", "b", "b", "o", "n">>,
    <<"R", "o", "c", "k", "e", "t">>,
    <<"G", "a", "d", "g", "e", "t">>,
    <<"H", "o", "n", "e", "y">>,
    <<"M", "a", "r", "b", "l", "e">>,
    <<"C", "r", "i", "s", "p">>>>

FallbackSecond ==
  <<<<"B", "u", "d", "d", "y">>,
    <<"P", "i", "l", "o", "t">>,
    <<"S", "w", "i", "t", "c", "h">>,
    <<"V", "a", "u", "l", "t">>,
    <<"C", "o", "m", "p", "a", "s", "s">>,
    <<"N", "u", "d", "g", "e">>,
    <<"P", "a", "t", "c", "h">>,
    <<"D", "o", "c", "k">>,
    <<"B", "l", "o", "o", "m">>,
    <<"B", "r", "i", "d", "g", "e">>,
    <<"G", "a", "u", "g", "e">>,
    <<"B", "u", "d", "d", "y">>,
    <<"K", "i", "t">>,
    <<"L", "o", "o", "p">>,
    <<"W", "o", "r", "k", "s">>,
    <<"P", "r", "o">>>>

\* fallbackTitle(descriptors, seed)
fallbackTitle(descriptors, seed) ==
  LET h == hash32(seed)
      w1 == FallbackFirst[Mod32(h, Len(FallbackFirst)) + 1]
      w2 == FallbackSecond[Mod32(Imul32(h, U32(40503, 31153)), Len(FallbackSecond)) + 1]
  IN  w1 \o <<" ">> \o w2

\* sanitizeTitle(title, descriptors, seed)
sanitizeTitle(title, descriptors, seed) ==
  LET banned == descriptorBannedWords(descriptors)
      s == CollapseSpaces([i \in 1..Len(title) |-> IF title[i] = "+" THEN " " ELSE title[i]])
      kept == SelectSeq(Words(s), LAMBDA w : normalizeWord(w) \notin banned)
      cleaned == Join(kept, <<" ">>)
  IN  IF Len(cleaned) < 3 THEN fallbackTitle(descriptors, seed) ELSE cleaned

DefaultPitch ==
  <<"A", " ", "p", "i", "t", "c", "h", " ", "s", "o", " ", "s", "e", "c", "r", "e", "t",
    " ", "i", "t", " ", "f", "o", "r", "g", "o", "t", " ", "t", "o", " ", "s", "h", "o",
    "w", " ", "u", "p", ".">>

DefaultCategory ==
  <<"c", "o", "n", "s", "u", "m", "e", "r">>

InventionWord ==
  <<"I", "n", "v", "e", "n", "t", "i", "o", "n", " ">>

FallbackSeedSuffix ==
  <<":", "f", "a", "l", "l", "b", "a", "c", "k">>

(***************************************************************************)
(* Descriptors.                                                            *)
(***************************************************************************)
\* The descriptor pool
DescriptorPool ==
  <<<<"n", "e", "o", "n", " ", "a", "r", "m", "a", "d", "i", "l", "l", "o">>,
    <<"q", "u", "a", "r", "t", "e", "r", "l", "y", " ", "t", "a", "x", "e", "s">>,
    <<"m", "o", "o", "n", " ", "c", "h", "e", "e", "s", "e">>,
    <<"a", "n", "g", "r", "y", " ", "g", "o", "o", "s", "e">>,
    <<"l", "e", "f", "t", " ", "s", "o", "c", "k">>,
    <<"T", "i", "n", "y", " ", "V", "i", "o", "l", "i", "n">>,
    <<"w", "e", "t", " ", "p", "a", "i", "n", "t">>>>

\* pickDescriptors(seed, count, avoidNormalized): the first count descriptors,
\* in pool order from a start the seed fixes, whose normalized form (trimmed,
\* lower case) is not avoided
pickDescriptors(seed, count, avoidNormalized) ==
  LET n == Len(DescriptorPool)
      start == Mod32(hash32(seed), n)
      order == [j \in 1..n |-> DescriptorPool[((start + j - 1) % n) + 1]] \o <<>>
      free == SelectSeq(order, LAMBDA d : ToLower(Trim(d)) \notin avoidNormalized)
  IN  SubSeq(free, 1, Min(count, Len(free)))

DefaultDescriptor1 == <<"c", "o", "n", "s", "u", "m", "e", "r", " ", "a", "n", "n", "o", "y", "a", "n", "c", "e">>
DefaultDescriptor2 == <<"b", "u", "r", "e", "a", "u", "c", "r", "a", "t", "i", "c", " ", "f", "o", "r", "m">>

(***************************************************************************)
(* Replies of the text-generation backend to an invention prompt.  A reply *)
(* is an exception (throw), or a text: json tells whether JSON.parse       *)
(* accepts it, and inv and hid are the two objects of the parsed value     *)
(* (a field is <<>> when absent; a numeric field holds Number(field)).     *)
(***************************************************************************)
ReplyThrow == [kind |-> "throw"]

ReplyGarbage == [kind |-> "text", json |-> FALSE]

ReplyFull ==
  [kind |-> "text", json |-> TRUE,
   inv |-> [title |-> Some(<<"N", "e", "o", "n", " ", "S", "o", "c", "k", "+", "G", "e", "n", "i", "e", " ">>),
            pitch |-> Some(<<"H", "o", "o", "k", ":", " ", "w", "o", "w", "\n", "O", "n", "e", " ", "a", ".", " ", " ", "T", "w", "o", " ", "b", "!", " ", "T", "h", "r", "e", "e", " ", "c", ".">>),
            category |-> Some(<<" ", "t", "o", "y", " ">>),
            valuationUsd |-> Half(1000001),
            unitPriceUsd |-> Num(0 - 5),
            unitCogsUsd |-> Num(1000000000)],
   hid |-> [notes |-> Some(<<" ", "n", " ">>),
            regulatoryRisk |-> "high",
            demandProfile |-> "fad"]]

ReplyEmptyObject ==
  [kind |-> "text", json |-> TRUE,
   inv |-> [title |-> Undefined, pitch |-> Undefined, category |-> Undefined,
            valuationUsd |-> NaN, unitPriceUsd |-> NaN, unitCogsUsd |-> NaN],
   hid |-> [notes |-> Undefined, regulatoryRisk |-> "extreme", demandProfile |-> ""]]

ReplyInRange ==
  [kind |-> "text", json |-> TRUE,
   inv |-> [title |-> Some(<<"G", "o">>),
            pitch |-> Some(<<"-", " ", "S", "o", "l", "o">>),
            category |-> Some(<<" ", " ">>),
            valuationUsd |-> Num(250000),
            unitPriceUsd |-> Half(51),
            unitCogsUsd |-> Infinity],
   hid |-> [notes |-> Some(<<>>),
            regulatoryRisk |-> "medium",
            demandProfile |-> "enterprise"]]

InventionIds == <<"A", "B", "C">>

\* The one-character string of an invention id
IdString(id) == <<id>>

DefaultHidden == [notes |-> <<>>, regulatoryRisk |-> "low", demandProfile |-> "niche"]

\* The hidden truth parseInventionResponse builds from the parsed hidden object
ParseHidden(hid) ==
  [notes |-> Trim(OrElse(hid.notes, <<>>)),
   regulatoryRisk |->
     IF hid.regulatoryRisk \in {"high", "medium", "low"} THEN hid.regulatoryRisk ELSE "low",
   demandProfile |->
     IF hid.demandProfile \in {"niche", "mainstream", "enterprise", "fad"}
     THEN hid.demandProfile ELSE "niche"]

\* (x || d) for a string x
StrOr(x, d) == IF x = <<>> THEN d ELSE x

\* parseInventionResponse(raw, id, descriptors, fixedNumbers)
parseInventionResponse(raw, id, descriptors, fixedNumbers) ==
  IF raw.json
  THEN LET unitPriceUsd == ClampInt(Num(fixedNumbers.unitPriceUsd),
                                    INVEST_UNIT_PRICE_MIN_USD, INVEST_UNIT_PRICE_MAX_USD)
           valuationUsd == ClampInt(Num(fixedNumbers.valuationUsd),
                                    INVEST_VALUATION_MIN_USD, INVEST_VALUATION_MAX_USD)
           titleSeed == IdString(id) \o <<":">> \o NumToString(unitPriceUsd)
                          \o <<":">> \o NumToString(valuationUsd)
       IN  [invention |->
              [id |-> id,
               title |-> sanitizeTitle(Trim(OrElse(raw.inv.title, InventionWord \o IdString(id))),
                                       descriptors, titleSeed),
               pitch |-> StrOr(sanitizePitch(Trim(OrElse(raw.inv.pitch, <<>>))), DefaultPitch),
               category |-> StrOr(Trim(OrElse(raw.inv.category, DefaultCategory)), DefaultCategory),
               descriptors |-> descriptors,
               valuationUsd |-> valuationUsd,
               unitPriceUsd |-> unitPriceUsd,
               unitCogsUsd |-> Undefined,
               imageUrl |-> Undefined],
            hidden |-> ParseHidden(raw.hid)]
  ELSE [invention |->
          [id |-> id,
           title |-> fallbackTitle(descriptors, IdString(id) \o FallbackSeedSuffix),
           pitch |-> DefaultPitch,
           category |-> DefaultCategory,
           descriptors |-> descriptors,
           valuationUsd |-> fixedNumbers.valuationUsd,
           unitPriceUsd |-> fixedNumbers.unitPriceUsd,
           unitCogsUsd |-> Undefined,
           imageUrl |-> Undefined],
        hidden |-> DefaultHidden]

\* parseInventionResponse(raw, id, descriptors) of the legacy start route,
\* where the backend invents the numbers
parseInventionResponseLegacy(raw, id, descriptors) ==
  IF raw.json
  THEN LET unitPriceUsd == ClampInt(raw.inv.unitPriceUsd,
                                    INVEST_UNIT_PRICE_MIN_USD, INVEST_UNIT_PRICE_MAX_USD)
           unitCogsUsd == ClampInt(raw.inv.unitCogsUsd, 0, unitPriceUsd)
           valuationUsd == ClampInt(raw.inv.valuationUsd,
                                    INVEST_VALUATION_MIN_USD, INVEST_VALUATION_MAX_USD)
       IN  [invention |->
              [id |-> id,
               title |-> StrOr(Trim(OrElse(raw.inv.title, InventionWord \o IdString(id))),
                               InventionWord \o IdString(id)),
               pitch |-> StrOr(sanitizePitch(Trim(OrElse(raw.inv.pitch, <<>>))), DefaultPitch),
               category |-> StrOr(Trim(OrElse(raw.inv.category, DefaultCategory)), DefaultCategory),
               descriptors |-> descriptors,
               valuationUsd |-> valuationUsd,
               unitPriceUsd |-> unitPriceUsd,
               unitCogsUsd |-> Some(unitCogsUsd),
               imageUrl |-> Undefined],
            hidden |-> ParseHidden(raw.hid)]
  ELSE [invention |->
          [id |-> id,
           title |-> InventionWord \o IdString(id),
           pitch |-> DefaultPitch,
           category |-> DefaultCategory,
           descriptors |-> descriptors,
           valuationUsd |-> INVEST_VALUATION_MIN_USD,
           unitPriceUsd |-> Max(INVEST_UNIT_PRICE_MIN_USD, 25),
           unitCogsUsd |-> Some(10),
           imageUrl |-> Undefined],
        hidden |-> DefaultHidden]

(***************************************************************************)
(* The cache store (the process-local map of storage.ts).                  *)
(***************************************************************************)
\* An entry of the map is live at time t when it has not expired
IsLive(st, key, t) == key \in DOMAIN st /\ ~(t > st[key].expiresAt)

kvGetJSONKeepsExpired(st, key, t) ==
  IF key \in DOMAIN st /\ ~(t > st[key].expiresAt)
  THEN [value |-> <<st[key].value>>, store |-> st]
  ELSE [value |-> <<>>, store |-> st]

\* kvGetJSON: the value read (<<>> for null) and the map after the read,
\* which has lost the entry when the read found it expired
kvGetJSON(st, key, t) ==
  IF key \notin DOMAIN st THEN [value |-> <<>>, store |-> st]
  ELSE IF t > st[key].expiresAt
       THEN [value |-> <<>>, store |-> [k \in DOMAIN st \ {key} |-> st[k]]]
       ELSE [value |-> <<st[key].value>>, store |-> st]

kvSetJSONKeepsExpiry(st, key, value, exSeconds, t) ==
  [k \in DOMAIN st \cup {key} |->
     IF k # key THEN st[k]
     ELSE [value |-> value,
           expiresAt |-> IF key \in DOMAIN st THEN st[key].expiresAt ELSE t + exSeconds]]

\* kvSetJSON with exSeconds: the map after the write
kvSetJSON(st, key, value, exSeconds, t) ==
  [k \in DOMAIN st \cup {key} |->
     IF k = key THEN [value |-> value, expiresAt |-> t + exSeconds] ELSE st[k]]

TtlForDaily(mode) == DAILY_TTL_SECONDS

TtlFor(mode) == IF mode = "daily" THEN DAILY_TTL_SECONDS ELSE RANDOM_TTL_SECONDS

(***************************************************************************)
(* Images.                                                                 *)
(***************************************************************************)

BlobUrl(gameId, id) == <<"b", "l", "o", "b", ":">> \o gameId \o <<"-">> \o IdString(id)
DataUrl == <<"d", "a", "t", "a", ":">>

\* generateAndStoreInventionImage when images are enabled and the image
\* backend did not throw: the URL, or undefined when no image came back
ImageUrlFor(outcome, canPersist, gameId, id) ==
  IF outcome = "img"
  THEN IF canPersist THEN Some(BlobUrl(gameId, id)) ELSE Some(DataUrl)
  ELSE Undefined

(***************************************************************************)
(* State.                                                                  *)
(***************************************************************************)
VARIABLES
  env,          \* the configuration of the deployment (fixed)
  now,          \* Date.now(), in seconds
  ticks,        \* how often the clock has advanced
  store,        \* the cache store: key -> [value, expiresAt]
  uuidCount,    \* the number of randomUUID values minted
  calls,        \* the number of requests begun
  procs,        \* per client: the handler invocation it runs
  firstCached,  \* history: key -> the item content stored by the write that created the entry
  promised,     \* history: key -> expiry of the slate as of the last successful start
  lastStart,    \* history: <<mode, dateKey>> -> body of the last successful start response
  keyArgs,      \* the arguments of the key derivation functions (key specification)
  sanitized,    \* the input and the result of a pure function (text, pick and parse specifications)
  kvLog,        \* history of the calls made on the store (store specification)
  hook          \* the state of the client hook useInvestorGame (client specification)

vars == <<env, now, ticks, store, uuidCount, calls, procs, firstCached, promised,
          lastStart, keyArgs, sanitized, kvLog, hook>>

Clients == {"c1", "c2"}

\* No call has been made on the store
NoKvLog == [sets |-> <<>>, get |-> <<>>, seq |-> 0]

\* No invocation of a callback of the hook runs in the slot
NoCall == [kind |-> "none", pc |-> "none"]

\* The hook is not mounted and localStorage is empty
NoHook ==
  [mounted |-> FALSE, today |-> 0, bankroll |-> <<>>, day |-> <<>>, ensured |-> FALSE,
   error |-> FALSE, calls |-> [p \in Clients |-> NoCall],
   ls |-> [bankroll |-> <<>>, day |-> <<>>], tx |-> <<>>, asked |-> <<>>, floored |-> <<>>,
   views |-> 0, ops |-> 0]


NoReq == [mode |-> "", dateKey |-> <<>>, gameId |-> <<>>, inventionId |-> "",
          text |-> <<>>, investedUsd |-> NaN]

IdleProc ==
  [op |-> "none", pc |-> "idle", req |-> NoReq, mode |-> "", dateKey |-> <<>>,
   gameId |-> <<>>, key |-> <<>>, existing |-> <<>>, targets |-> <<>>, avoid |-> {},
   inventions |-> <<>>, hidden |-> <<>>, genCalls |-> 0, kvReads |-> 0, kvWrites |-> 0,
   backendThrew |-> FALSE, storeThrew |-> "", unparsed |-> FALSE, sawCached |-> FALSE,
   readAt |-> 0,
   seenUntil |-> 0, raw |-> <<>>, invested |-> 0,
   prev |-> <<>>, resp |-> [status |-> 0, error |-> "", body |-> <<>>]]

\* The invocation record of a handler that has answered: its locals are dropped
Answer(pr, status, error, body) ==
  [pr EXCEPT !.pc = "done", !.existing = <<>>, !.targets = <<>>, !.avoid = {},
             !.inventions = <<>>, !.hidden = <<>>,
             !.resp = [status |-> status, error |-> error, body |-> body]]

\* randomUUID: the n-th value minted
Uuid(n) == <<"u">> \o NumToString(n)

DebugWord == <<"d", "e", "b", "u", "g">>

\* The item content that is final once cached: everything but imageUrl
Core(inv) ==
  [id |-> inv.id, title |-> inv.title, pitch |-> inv.pitch, category |-> inv.category,
   descriptors |-> inv.descriptors, valuationUsd |-> inv.valuationUsd,
   unitPriceUsd |-> inv.unitPriceUsd]

Cores(inventions) == [i \in 1..Len(inventions) |-> Core(inventions[i])]

\* The history variables after a cache write of slate under key
FirstCachedAfterWrite(key, slate) ==
  IF IsLive(store, key, now) THEN firstCached
  ELSE [k \in DOMAIN firstCached \cup {key} |->
          IF k = key THEN Cores(slate.inventions) ELSE firstCached[k]]

\* The normalized mode of a request body
ModeOf(req) == IF req.mode = "debug-random" THEN "debug-random" ELSE "daily"

(***************************************************************************)
(* The start handler (POST of the invest start route), one action per      *)
(* stretch of code between two awaits.                                     *)
(***************************************************************************)

SeedOfPerCall(mode, dateKey, gameId) ==
  (IF mode = "daily" THEN dateKey ELSE gameId) \o <<":">> \o NumToString(calls)

\* The seed of a game: the dateKey in daily mode, else the gameId
SeedOf(mode, dateKey, gameId) == IF mode = "daily" THEN dateKey ELSE gameId

\* The test of the cache-hit branch: existing && existing.inventions?.length === 3
SlateIsCachedNever(existing) == FALSE

SlateIsCached(existing) == existing # <<>> /\ Len(existing[1].inventions) = 3

\* The generation loop has run for every id once n inventions are pushed
AllGeneratedEarly(n) == n >= 2

AllGenerated(n) == n >= Len(InventionIds)

\* The request is parsed and checked, the key derived
StartBegin(p, req) ==
  /\ procs[p].pc \in {"idle", "done"}
  /\ calls' = calls + 1
  /\ LET mode == ModeOf(req)
         fresh == [IdleProc EXCEPT !.op = "start", !.req = req, !.mode = mode]
     IN  IF mode = "daily" /\ Falsy(req.dateKey)
         THEN /\ procs' = [procs EXCEPT ![p] = Answer(fresh, 400, "Missing dateKey for daily mode", <<>>)]
              /\ UNCHANGED uuidCount
         ELSE LET dateKey == Trim(OrElse(req.dateKey, DebugWord))
                  gameId == IF mode = "daily" THEN dateKey ELSE Uuid(uuidCount + 1)
                  k == investSlateKeyFor(mode, gameId,
                                         IF mode = "daily" THEN Some(dateKey) ELSE Undefined)
                  pr == [fresh EXCEPT !.dateKey = dateKey, !.gameId = gameId]
              IN  /\ mode # "daily" => uuidCount < MaxGames
                  /\ uuidCount' = IF mode = "daily" THEN uuidCount ELSE uuidCount + 1
                  /\ procs' = [procs EXCEPT ![p] =
                       IF k.ok THEN [pr EXCEPT !.pc = "read", !.key = k.key]
                       ELSE Answer(pr, 500, "Failed to start invest game", <<>>)]
  /\ UNCHANGED <<env, now, ticks, store, firstCached, promised, lastStart, keyArgs, sanitized, kvLog, hook>>

\* The numbers pre-picked for the slate (the legacy route picks none)
TargetsFor(seed) ==
  IF env.legacy THEN <<>>
  ELSE <<[price |-> pickTripletFromBuckets(seed \o <<":", "u", "n", "i", "t", "P", "r", "i", "c", "e">>, <<<<5, 50>>, <<100, 500>>, <<1000, 3000>>>>),
          valuation |-> makeVariedNumberTriplet(seed \o <<":", "v", "a", "l", "u", "a", "t", "i", "o", "n">>,
                          INVEST_VALUATION_MIN_USD, INVEST_VALUATION_MAX_USD)]>>

\* The cache is read; on a miss the generation is prepared
StartRead(p) ==
  LET pr == procs[p]
      got == kvGetJSON(store, pr.key, now)
      live == IsLive(store, pr.key, now)
      seen == [pr EXCEPT !.kvReads = @ + 1, !.readAt = now,
                 !.sawCached = live /\ Len(store[pr.key].value.inventions) = 3,
                 !.seenUntil = IF live THEN store[pr.key].expiresAt ELSE 0]
  IN  /\ pr.op = "start" /\ pr.pc = "read"
      /\ store' = got.store
      /\ procs' = [procs EXCEPT ![p] =
           IF SlateIsCached(got.value)
           THEN [seen EXCEPT !.pc = "hit", !.existing = got.value]
           ELSE [seen EXCEPT !.pc = "gen",
                   !.targets = TargetsFor(SeedOf(pr.mode, pr.dateKey, pr.gameId)),
                   !.hidden = [id \in {"A", "B", "C"} |-> DefaultHidden]]]
      /\ UNCHANGED <<env, now, ticks, uuidCount, calls, firstCached, promised, lastStart,
                     keyArgs, sanitized, kvLog, hook>>

\* The backend replies tried for the item at position idx
GenReplies(idx) ==
  IF idx = 1 THEN {ReplyThrow, ReplyGarbage, ReplyFull}
  ELSE IF idx = 2 THEN {ReplyThrow, ReplyEmptyObject, ReplyInRange}
  ELSE {ReplyThrow, ReplyFull}

StartGenRetrying(p, reply) ==
  LET pr == procs[p]
      idx == Len(pr.inventions) + 1
      id == InventionIds[idx]
      seedId == SeedOf(pr.mode, pr.dateKey, pr.gameId) \o <<":">> \o IdString(id)
      picked == pickDescriptors(seedId, 2, pr.avoid)
      avoid2 == pr.avoid \cup {ToLower(Trim(picked[k])) : k \in 1..Len(picked)}
      descriptors ==
        <<IF Len(picked) >= 1 /\ picked[1] # <<>> THEN picked[1] ELSE DefaultDescriptor1,
          IF Len(picked) >= 2 /\ picked[2] # <<>> THEN picked[2] ELSE DefaultDescriptor2>>
      fixedNumbers ==
        [unitPriceUsd |-> Max(INVEST_UNIT_PRICE_MIN_USD,
                              Min(INVEST_UNIT_PRICE_MAX_USD, pr.targets[1].price[idx])),
         valuationUsd |-> Max(INVEST_VALUATION_MIN_USD,
                              Min(INVEST_VALUATION_MAX_USD, pr.targets[1].valuation[idx]))]
      generated ==
        IF env.legacy THEN parseInventionResponseLegacy(reply, id, descriptors)
        ELSE parseInventionResponse(reply, id, descriptors, fixedNumbers)
      called == [pr EXCEPT !.genCalls = @ + 1, !.avoid = avoid2]
  IN  /\ pr.op = "start" /\ pr.pc = "gen"
      /\ procs' = [procs EXCEPT ![p] =
           IF reply.kind = "throw"
           THEN [called EXCEPT !.backendThrew = TRUE]
           ELSE [called EXCEPT
                   !.inventions = Append(@, generated.invention),
                   !.hidden = [@ EXCEPT ![id] = generated.hidden],
                   !.unparsed = @ \/ ~reply.json,
                   !.pc = IF AllGenerated(idx) THEN "finish" ELSE "gen"]]
      /\ UNCHANGED <<env, now, ticks, store, uuidCount, calls, firstCached, promised,
                     lastStart, keyArgs, sanitized, kvLog, hook>>

\* One round of the generation loop: descriptors, numbers, one backend call
StartGen(p, reply) ==
  LET pr == procs[p]
      idx == Len(pr.inventions) + 1
      id == InventionIds[idx]
      seedId == SeedOf(pr.mode, pr.dateKey, pr.gameId) \o <<":">> \o IdString(id)
      picked == pickDescriptors(seedId, 2, pr.avoid)
      avoid2 == pr.avoid \cup {ToLower(Trim(picked[k])) : k \in 1..Len(picked)}
      descriptors ==
        <<IF Len(picked) >= 1 /\ picked[1] # <<>> THEN picked[1] ELSE DefaultDescriptor1,
          IF Len(picked) >= 2 /\ picked[2] # <<>> THEN picked[2] ELSE DefaultDescriptor2>>
      fixedNumbers ==
        [unitPriceUsd |-> Max(INVEST_UNIT_PRICE_MIN_USD,
                              Min(INVEST_UNIT_PRICE_MAX_USD, pr.targets[1].price[idx])),
         valuationUsd |-> Max(INVEST_VALUATION_MIN_USD,
                              Min(INVEST_VALUATION_MAX_USD, pr.targets[1].valuation[idx]))]
      generated ==
        IF env.legacy THEN parseInventionResponseLegacy(reply, id, descriptors)
        ELSE parseInventionResponse(reply, id, descriptors, fixedNumbers)
      called == [pr EXCEPT !.genCalls = @ + 1, !.avoid = avoid2]
  IN  /\ pr.op = "start" /\ pr.pc = "gen"
      /\ procs' = [procs EXCEPT ![p] =
           IF reply.kind = "throw"
           THEN Answer([called EXCEPT !.backendThrew = TRUE], 500, "Failed to start invest game", <<>>)
           ELSE [called EXCEPT
                   !.inventions = Append(@, generated.invention),
                   !.hidden = [@ EXCEPT ![id] = generated.hidden],
                   !.unparsed = @ \/ ~reply.json,
                   !.pc = IF AllGenerated(idx) THEN "finish" ELSE "gen"]]
      /\ UNCHANGED <<env, now, ticks, store, uuidCount, calls, firstCached, promised,
                     lastStart, keyArgs, sanitized, kvLog, hook>>

\* The image outcomes a handler can meet: one per item when images are enabled
ImageChoices ==
  IF env.imagesEnabled
  THEN {<<"img", "img", "img">>, <<"none", "throw", "img">>}
  ELSE {<<"none", "none", "none">>}

\* What the history of start responses keeps of a response body
StartSummary(body) == [gameId |-> body.gameId, items |-> Cores(body.inventions)]

LastStartAfter(pr, body) ==
  [k \in DOMAIN lastStart \cup {<<pr.mode, pr.dateKey>>} |->
     IF k = <<pr.mode, pr.dateKey>> THEN StartSummary(body) ELSE lastStart[k]]

PrevStart(pr) ==
  IF <<pr.mode, pr.dateKey>> \in DOMAIN lastStart THEN <<lastStart[<<pr.mode, pr.dateKey>>]>> ELSE <<>>

PromisedAfter(key, until) ==
  [k \in DOMAIN promised \cup {key} |-> IF k = key THEN until ELSE promised[k]]

\* The cache write at the end of a cache-miss start: the map after it
StartWriteSkipped(pr, slate) == store

StartWrite(pr, slate) == kvSetJSON(store, pr.key, slate, TtlFor(pr.mode), now)

\* Cache miss, after the loop: images, the slate, the cache write, the response
StartFinish(p, imgs) ==
  LET pr == procs[p]
      forResponse ==
        [i \in 1..Len(pr.inventions) |->
           [pr.inventions[i] EXCEPT !.imageUrl =
              IF env.imagesEnabled /\ imgs[i] # "throw"
              THEN ImageUrlFor(imgs[i], env.canPersist, pr.gameId, pr.inventions[i].id)
              ELSE Undefined]]
      forKv ==
        [i \in 1..Len(pr.inventions) |->
           [pr.inventions[i] EXCEPT !.imageUrl =
              IF env.canPersist THEN forResponse[i].imageUrl ELSE Undefined]]
      slate ==
        [version |-> 1, mode |-> pr.mode,
         dateKey |-> IF pr.mode = "daily" THEN Some(pr.dateKey) ELSE Undefined,
         gameId |-> pr.gameId, inventions |-> forKv, hidden |-> pr.hidden]
      body == [mode |-> pr.mode, dateKey |-> pr.dateKey, gameId |-> pr.gameId,
               inventions |-> forResponse]
  IN  /\ pr.op = "start" /\ pr.pc = "finish"
      /\ store' = StartWrite(pr, slate)
      /\ firstCached' = FirstCachedAfterWrite(pr.key, slate)
      /\ promised' = PromisedAfter(pr.key, now + TtlFor(pr.mode))
      /\ lastStart' = LastStartAfter(pr, body)
      /\ procs' = [procs EXCEPT ![p] =
           Answer([pr EXCEPT !.kvWrites = @ + 1, !.prev = PrevStart(pr)], 200, "", body)]
      /\ UNCHANGED <<env, now, ticks, uuidCount, calls, keyArgs, sanitized, kvLog, hook>>

\* The inventions of a cached slate after the image backfill
HitInventions(existing, imgs) ==
  [i \in 1..Len(existing.inventions) |->
     LET inv == existing.inventions[i]
         needsImage == Falsy(inv.imageUrl) \/ ~env.canPersist
     IN  IF env.imagesEnabled /\ needsImage /\ imgs[i] # "throw"
         THEN [inv EXCEPT !.imageUrl =
                 ImageUrlFor(imgs[i], env.canPersist, existing.gameId, inv.id)]
         ELSE inv]

HitBodyWithHidden(pr, existing, inventions) ==
  [mode |-> pr.mode, dateKey |-> pr.dateKey, gameId |-> existing.gameId,
   inventions |-> inventions, hidden |-> existing.hidden]

\* The response of a cache-hit start
HitBody(pr, existing, inventions) ==
  [mode |-> pr.mode, dateKey |-> pr.dateKey, gameId |-> existing.gameId,
   inventions |-> inventions]

\* Cache hit: the image backfill, the write-back without URLs when images
\* cannot persist, the response
StartHit(p, imgs) ==
  LET pr == procs[p]
      existing == pr.existing[1]
      inventions == HitInventions(existing, imgs)
      updated ==
        [existing EXCEPT !.inventions =
           [i \in 1..Len(inventions) |-> [inventions[i] EXCEPT !.imageUrl = Undefined]]]
      body == HitBody(pr, existing, inventions)
  IN  /\ pr.op = "start" /\ pr.pc = "hit"
      /\ IF ~env.canPersist
         THEN /\ store' = kvSetJSON(store, pr.key, updated, TtlFor(pr.mode), now)
              /\ firstCached' = FirstCachedAfterWrite(pr.key, updated)
              /\ promised' = PromisedAfter(pr.key, now + TtlFor(pr.mode))
         ELSE /\ UNCHANGED <<store, firstCached>>
              /\ promised' = PromisedAfter(pr.key, pr.seenUntil)
      /\ lastStart' = LastStartAfter(pr, body)
      /\ procs' = [procs EXCEPT ![p] =
           Answer([pr EXCEPT !.kvWrites = IF env.canPersist THEN @ ELSE @ + 1,
                             !.prev = PrevStart(pr)], 200, "", body)]
      /\ UNCHANGED <<env, now, ticks, uuidCount, calls, keyArgs, sanitized, kvLog, hook>>

(***************************************************************************)
(* The revise handler: it reads the slate and answers with a rewritten     *)
(* pitch; it writes nothing.                                               *)
(***************************************************************************)

IsInventionId(x) == x = "A" \/ x = "B" \/ x = "C"

\* slate.inventions.find((x) => x.id === inventionId)
FindInvention(slate, inventionId) ==
  LET at == {i \in 1..Len(slate.inventions) : slate.inventions[i].id = inventionId}
  IN  IF at = {} THEN <<>>
      ELSE <<slate.inventions[CHOOSE i \in at : \A j \in at : i <= j]>>

\* The locals that revise and simulate derive from the request body
LookupLocals(op, req) ==
  LET dateKey == Trim(OrElse(req.dateKey, <<>>))
      trimmedId == Trim(OrElse(req.gameId, <<>>))
  IN  [IdleProc EXCEPT !.op = op, !.req = req, !.mode = ModeOf(req), !.dateKey = dateKey,
                       !.gameId = IF trimmedId # <<>> THEN trimmedId ELSE dateKey]

\* The checks that revise and simulate share: the error, or the empty string
LookupError(pr) ==
  IF pr.mode = "daily" /\ pr.dateKey = <<>> THEN "Missing dateKey for daily mode"
  ELSE IF pr.gameId = <<>> THEN "Missing gameId"
  ELSE IF ~IsInventionId(pr.req.inventionId) THEN "Missing inventionId"
  ELSE ""

\* The checks of revise on the request body
ReviseError(pr) ==
  LET suggestion == Trim(OrElse(pr.req.text, <<>>))
  IN  IF LookupError(pr) # "" THEN LookupError(pr)
      ELSE IF suggestion = <<>> THEN "Missing suggestion"
      ELSE IF Len(suggestion) > MAX_SUGGESTION_CHARS THEN "Suggestion too long"
      ELSE ""

DefaultRevisedPitch ==
  <<"W", "e", " ", "r", "e", "f", "i", "n", "e", "d", " ", "t", "h", "e", " ", "p", "i", "t",
    "c", "h", ",", " ", "b", "u", "t", " ", "t", "h", "e", " ", "w", "o", "r", "d", "s", " ",
    "s", "l", "i", "p", "p", "e", "d", " ", "t", "h", "r", "o", "u", "g", "h", " ", "o", "u",
    "r", " ", "f", "i", "n", "g", "e", "r", "s", ".", "\n", "T", "r", "y", " ", "a", "g", "a",
    "i", "n", " ", "w", "i", "t", "h", " ", "a", " ", "s", "h", "o", "r", "t", "e", "r", " ",
    "s", "u", "g", "g", "e", "s", "t", "i", "o", "n", ".">>

ReviseReplyGarbage ==
  [kind |-> "text", json |-> FALSE, revisedPitch |-> Undefined, matched |-> Undefined]

ReviseReplyLabelled ==
  [kind |-> "text", json |-> TRUE,
   revisedPitch |-> Some(<<" ", "T", "i", "p", ":", " ", "x", "\n", "U", "p", ".", " ", "U", "p", "!", " ", "U", "p", "?">>),
   matched |-> Undefined]

ReviseReplies == {ReplyThrow, ReviseReplyGarbage, ReviseReplyLabelled}

\* parseRevisedPitch: the JSON field, else what the regular expression
\* finds in the raw text, else a stock sentence
parseRevisedPitch(raw) ==
  IF raw.json /\ raw.revisedPitch # <<>> /\ Trim(raw.revisedPitch[1]) # <<>>
  THEN sanitizePitch(Trim(raw.revisedPitch[1]))
  ELSE IF raw.matched # <<>> /\ raw.matched[1] # <<>>
  THEN sanitizePitch(Trim(raw.matched[1]))
  ELSE DefaultRevisedPitch

LookupUnchecked(pr, err, failed) ==
  LET k == investSlateKeyFor(pr.mode, pr.gameId, Some(pr.dateKey))
      got == kvGetJSON(store, k.key, now)
      seen == [pr EXCEPT !.key = k.key, !.kvReads = 1, !.readAt = now]
  IN  IF err # "" THEN [store |-> store, proc |-> Answer(pr, 400, err, <<>>)]
      ELSE IF ~k.ok THEN [store |-> store, proc |-> Answer(pr, 500, failed, <<>>)]
      ELSE [store |-> got.store,
            proc |-> IF got.value = <<>> THEN Answer(seen, 500, failed, <<>>)
                     ELSE IF FindInvention(got.value[1], pr.req.inventionId) = <<>>
                     THEN Answer(seen, 404, "Invention not found", <<>>)
                     ELSE [seen EXCEPT !.pc = "call", !.existing = got.value]]

\* The request is checked, the key derived and the slate read: the store
\* after the read, and the invocation, which goes on to the backend call
\* when the item is found
Lookup(pr, err, failed) ==
  LET k == investSlateKeyFor(pr.mode, pr.gameId, Some(pr.dateKey))
      got == kvGetJSON(store, k.key, now)
      seen == [pr EXCEPT !.key = k.key, !.kvReads = 1, !.readAt = now]
  IN  IF err # "" THEN [store |-> store, proc |-> Answer(pr, 400, err, <<>>)]
      ELSE IF ~k.ok THEN [store |-> store, proc |-> Answer(pr, 500, failed, <<>>)]
      ELSE [store |-> got.store,
            proc |-> IF got.value = <<>> THEN Answer(seen, 404, "Game not found", <<>>)
                     ELSE IF FindInvention(got.value[1], pr.req.inventionId) = <<>>
                     THEN Answer(seen, 404, "Invention not found", <<>>)
                     ELSE [seen EXCEPT !.pc = "call", !.existing = got.value]]

ReviseLookup(p, req) ==
  LET pr == LookupLocals("revise", req)
      found == Lookup(pr, ReviseError(pr), "Failed to revise pitch")
  IN  /\ procs[p].pc \in {"idle", "done"}
      /\ calls' = calls + 1
      /\ store' = found.store
      /\ procs' = [procs EXCEPT ![p] = found.proc]
      /\ UNCHANGED <<env, now, ticks, uuidCount, firstCached, promised, lastStart, keyArgs, sanitized, kvLog, hook>>

\* The backend call of revise and the answer
ReviseCall(p, reply) ==
  LET pr == procs[p]
      called == [pr EXCEPT !.genCalls = @ + 1]
  IN  /\ pr.op = "revise" /\ pr.pc = "call"
      /\ procs' = [procs EXCEPT ![p] =
           IF reply.kind = "throw"
           THEN Answer([called EXCEPT !.backendThrew = TRUE], 500, "Failed to revise pitch", <<>>)
           ELSE Answer([called EXCEPT !.unparsed = ~reply.json], 200, "",
                       [revisedPitch |-> parseRevisedPitch(reply)])]
      /\ UNCHANGED <<env, now, ticks, store, uuidCount, calls, firstCached, promised,
                     lastStart, keyArgs, sanitized, kvLog, hook>>

(***************************************************************************)
(* The simulate handler: it reads the slate and answers with the units     *)
(* sold; it writes nothing.                                                *)
(***************************************************************************)

\* Math.floor of a finite number
MathFloor(x) == x.h \div 2

\* Math.floor(valuationUsd * INVEST_MAX_INVEST_FRACTION_OF_VALUATION), the fraction being 3/4
MaxInvest(valuationUsd) == (valuationUsd * 3) \div 4

\* The checks of simulate on the request body
SimulateError(pr) ==
  IF LookupError(pr) # "" THEN LookupError(pr)
  ELSE IF Trim(OrElse(pr.req.text, <<>>)) = <<>> THEN "Missing revisedPitch"
  ELSE IF ~IsFinite(pr.req.investedUsd) \/ pr.req.investedUsd.h <= 0
  THEN "Invalid investedUsd"
  ELSE ""

\* Math.min(Math.floor(investedUsdRaw), maxInvest)
InvestedUsd(raw, invention) == Min(MathFloor(raw), MaxInvest(invention.valuationUsd))

OwnershipShareOfMaxInvest(investedUsd, valuationUsd) ==
  [n |-> investedUsd, d |-> MaxInvest(valuationUsd)]

\* Math.min(INVEST_MAX_INVEST_FRACTION_OF_VALUATION, investedUsd / valuationUsd):
\* the fraction n/d, not reduced; the cap is 3/4
OwnershipShare(investedUsd, valuationUsd) ==
  IF 4 * investedUsd > 3 * valuationUsd THEN [n |-> 3, d |-> 4]
  ELSE [n |-> investedUsd, d |-> valuationUsd]

\* clampedUnits * invention.unitPriceUsd
GrossRevenueUsd(clampedUnits, unitPriceUsd) == BigTimes(BigOf(clampedUnits), unitPriceUsd, 0)

PayoutUsdFloored(grossRevenueUsd, share) ==
  BigDivMod(BigTimes(grossRevenueUsd, share.n, 0), share.d).q

\* Math.round(grossRevenueUsd * ownershipShare): floor((2 g n + d) / (2 d))
PayoutUsd(grossRevenueUsd, share) ==
  BigDivMod(BigPlus(BigTimes(BigTimes(grossRevenueUsd, share.n, 0), 2, 0), BigOf(share.d), 0),
            2 * share.d).q

\* The stock narrative; its ellipsis character is written ^ here
DefaultNarrative ==
  <<"T", "h", "e", " ", "m", "a", "r", "k", "e", "t", " ", "m", "a", "d", "e", " ", "a", " ",
    "s", "o", "u", "n", "d", ".", " ", "I", "t", " ", "w", "a", "s", "^", " ", "c", "o", "m",
    "p", "l", "i", "c", "a", "t", "e", "d", ".">>

SimReplyGarbage ==
  [kind |-> "text", json |-> FALSE, unitsSold |-> NaN, narrative |-> Undefined,
   unitsMatch |-> Undefined, narMatch |-> Undefined]

\* The reply {"unitsSold": 1000000000.5, "narrative": " Boom. "}
SimReplyHuge ==
  [kind |-> "text", json |-> TRUE, unitsSold |-> Half(2000000001),
   narrative |-> Some(<<" ", "B", "o", "o", "m", ".", " ">>),
   unitsMatch |-> Some(1000000000), narMatch |-> Some(<<" ", "B", "o", "o", "m", ".", " ">>)]

\* The replies of the backend to simulate: an exception, text that is no
\* JSON, a count far too large, the count -5, a count that is no number (for
\* which Number() gives NaN and the regular expression finds no digits), and
\* a count within the range
SimReplies ==
  {ReplyThrow, SimReplyGarbage, SimReplyHuge,
   [SimReplyHuge EXCEPT !.unitsSold = Num(-5), !.unitsMatch = Undefined],
   [SimReplyHuge EXCEPT !.unitsSold = NaN, !.unitsMatch = Undefined],
   [SimReplyHuge EXCEPT !.unitsSold = Half(5), !.unitsMatch = Some(2)]}

\* parseSimResponse: the JSON fields when both are usable, else what the
\* regular expressions find in the raw text, else 1 and a stock narrative
parseSimResponse(raw) ==
  IF raw.json /\ IsFinite(raw.unitsSold) /\ Trim(OrElse(raw.narrative, <<>>)) # <<>>
  THEN [unitsSold |-> raw.unitsSold, narrative |-> Trim(raw.narrative[1])]
  ELSE [unitsSold |-> IF raw.unitsMatch # <<>> THEN Num(raw.unitsMatch[1]) ELSE Num(1),
        narrative |-> StrOr(Trim(OrElse(raw.narMatch, <<>>)), DefaultNarrative)]

SimulateLookup(p, req) ==
  LET pr == LookupLocals("simulate", req)
      found == Lookup(pr, SimulateError(pr), "Failed to simulate market")
      invention == FindInvention(found.proc.existing[1], req.inventionId)[1]
  IN  /\ procs[p].pc \in {"idle", "done"}
      /\ calls' = calls + 1
      /\ store' = found.store
      /\ procs' = [procs EXCEPT ![p] =
           IF found.proc.pc = "call" /\ InvestedUsd(req.investedUsd, invention) <= 0
           THEN Answer(found.proc, 400, "Investment is too small", <<>>)
           ELSE found.proc]
      /\ UNCHANGED <<env, now, ticks, uuidCount, firstCached, promised, lastStart, keyArgs, sanitized, kvLog, hook>>

\* simulate storing the slate it has read again, with a new expiry
SimulateCallTouching(p, reply) ==
  LET pr == procs[p]
      called == [pr EXCEPT !.genCalls = @ + 1]
      invention == FindInvention(pr.existing[1], pr.req.inventionId)[1]
      parsed == parseSimResponse(reply)
      clampedUnits == ClampInt(parsed.unitsSold, INVEST_MIN_UNITS_SOLD, INVEST_MAX_UNITS_SOLD)
      investedUsd == InvestedUsd(pr.req.investedUsd, invention)
      ownershipShare == OwnershipShare(investedUsd, invention.valuationUsd)
      grossRevenueUsd == GrossRevenueUsd(clampedUnits, invention.unitPriceUsd)
  IN  /\ pr.op = "simulate" /\ pr.pc = "call"
      /\ store' = kvSetJSON(store, pr.key, pr.existing[1], TtlFor(pr.mode), now)
      /\ procs' = [procs EXCEPT ![p] =
           IF reply.kind = "throw"
           THEN Answer([called EXCEPT !.backendThrew = TRUE], 500, "Failed to simulate market", <<>>)
           ELSE Answer([called EXCEPT !.unparsed = ~reply.json, !.raw = <<reply>>,
                                      !.invested = investedUsd],
                       200, "",
                       [unitsSold |-> clampedUnits,
                        grossRevenueUsd |-> grossRevenueUsd,
                        ownershipShare |-> ownershipShare,
                        payoutUsd |-> PayoutUsd(grossRevenueUsd, ownershipShare)])]
      /\ UNCHANGED <<env, now, ticks, uuidCount, calls, firstCached, promised,
                     lastStart, keyArgs, sanitized, kvLog, hook>>

\* The backend call of simulate and the answer
SimulateCall(p, reply) ==
  LET pr == procs[p]
      called == [pr EXCEPT !.genCalls = @ + 1]
      invention == FindInvention(pr.existing[1], pr.req.inventionId)[1]
      parsed == parseSimResponse(reply)
      clampedUnits == ClampInt(parsed.unitsSold, INVEST_MIN_UNITS_SOLD, INVEST_MAX_UNITS_SOLD)
      investedUsd == InvestedUsd(pr.req.investedUsd, invention)
      ownershipShare == OwnershipShare(investedUsd, invention.valuationUsd)
      grossRevenueUsd == GrossRevenueUsd(clampedUnits, invention.unitPriceUsd)
  IN  /\ pr.op = "simulate" /\ pr.pc = "call"
      /\ procs' = [procs EXCEPT ![p] =
           IF reply.kind = "throw"
           THEN Answer([called EXCEPT !.backendThrew = TRUE], 500, "Failed to simulate market", <<>>)
           ELSE Answer([called EXCEPT !.unparsed = ~reply.json, !.raw = <<reply>>,
                                      !.invested = investedUsd],
                       200, "",
                       [unitsSold |-> clampedUnits,
                        grossRevenueUsd |-> grossRevenueUsd,
                        ownershipShare |-> ownershipShare,
                        payoutUsd |-> PayoutUsd(grossRevenueUsd, ownershipShare)])]
      /\ UNCHANGED <<env, now, ticks, store, uuidCount, calls, firstCached, promised,
                     lastStart, keyArgs, sanitized, kvLog, hook>>

(***************************************************************************)
(* The clock.                                                              *)
(***************************************************************************)
TickSteps == {1, RANDOM_TTL_SECONDS + 1, DAILY_TTL_SECONDS + 1}

Tick(d) ==
  /\ ticks < MaxTicks
  /\ ticks' = ticks + 1
  /\ now' = now + d
  /\ UNCHANGED <<env, store, uuidCount, calls, procs, firstCached, promised, lastStart,
                 keyArgs, sanitized, kvLog, hook>>

(***************************************************************************)
(* The start handler of the Pearly Gates game (POST of the game start      *)
(* route). A profile is [version, dateKey, mode, gameId, alignment,        *)
(* faceEmoji, visible, hidden]; visible.caseNumber is <<>> when absent.    *)
(* A reply of the backend to the character prompt is an exception or a     *)
(* text: json tells whether JSON.parse accepts it, visible and hidden are  *)
(* the two objects of the parsed value (<<>> when absent); an acts field   *)
(* is <<>> when it is not an array.                                        *)
(***************************************************************************)
Ellipsis == <<"ellipsis">>

QuoteChars == {"\"", "'"}

\* s.replace(re, " ") for the regular expression: a character of opens, 1 to
\* 60 characters that are not in closes, a character of closes
RECURSIVE ReplaceDelimited(_, _, _, _, _)
ReplaceDelimited(s, i, opens, closes, acc) ==
  IF i > Len(s) THEN acc
  ELSE LET ends == {j \in (i + 1)..Len(s) : s[j] \in closes}
           j == CHOOSE e \in ends : \A f \in ends : e <= f
       IN  IF s[i] \in opens /\ ends # {} /\ j >= i + 2 /\ j - i - 1 <= 60
           THEN ReplaceDelimited(s, j + 1, opens, closes, Append(acc, " "))
           ELSE ReplaceDelimited(s, i + 1, opens, closes, Append(acc, s[i]))

UnknownWord == <<"U", "n", "k", "n", "o", "w", "n">>

\* sanitizeName
sanitizeName(input) ==
  LET str == Trim(input)
      withoutQuoted == Trim(ReplaceDelimited(str, 1, QuoteChars, QuoteChars, <<>>))
      withoutParens == Trim(ReplaceDelimited(withoutQuoted, 1, {"("}, {")"}, <<>>))
      normalized == Trim(CollapseSpaces(withoutParens))
  IN  IF str = <<>> THEN UnknownWord ELSE StrOr(normalized, UnknownWord)

\* to3 of parseCharacterResponse
to3(arr) ==
  LET given == IF arr = <<>> THEN <<>> ELSE arr[1]
      items == SelectSeq([i \in 1..Len(given) |-> Trim(given[i])] \o <<>>,
                         LAMBDA x : x # <<>>)
  IN  SubSeq(items \o <<Ellipsis, Ellipsis, Ellipsis>>, 1, 3)

FallbackProfile ==
  [visible |-> [caseNumber |-> Some(1000),
                name |-> <<"M", "y", "s", "t", "e", "r", "y", " ", "S", "o", "u", "l">>,
                age |-> 42, occupation |-> UnknownWord, causeOfDeath |-> UnknownWord],
   hidden |-> [bio |-> <<"A", " ", "s", "o", "u", "l", ".">>,
               bestActs |-> <<Ellipsis, Ellipsis, Ellipsis>>,
               worstActs |-> <<Ellipsis, Ellipsis, Ellipsis>>]]

\* parseCharacterResponse
parseCharacterResponse(raw) ==
  IF ~raw.json \/ raw.visible = <<>> \/ raw.hidden = <<>> THEN FallbackProfile
  ELSE LET visible == raw.visible[1]
           hidden == raw.hidden[1]
       IN  [visible |->
              [caseNumber |-> Some(1000),
               name |-> sanitizeName(OrElse(visible.name, UnknownWord)),
               age |-> IF IsFinite(visible.age)
                       THEN Max(1, Min(120, MathRound(visible.age)))
                       ELSE 42,
               occupation |-> OrElse(visible.occupation,
                                     <<"U", "n", "e", "m", "p", "l", "o", "y", "e", "d">>),
               causeOfDeath |-> OrElse(visible.causeOfDeath, UnknownWord)],
            hidden |->
              [bio |-> OrElse(hidden.bio, <<>>),
               bestActs |-> to3(hidden.bestActs),
               worstActs |-> to3(hidden.worstActs)]]

PgReplyFull ==
  [kind |-> "text", json |-> TRUE,
   visible |-> <<[name |-> Some(<<" ", "A", "l", " ", "\"", "X", "\"", " ", "(", "j", ")", " ", " ", "B", "o">>),
                  age |-> Half(241), occupation |-> Undefined,
                  causeOfDeath |-> Some(<<"f", "a", "l", "l">>)]>>,
   hidden |-> <<[bio |-> Some(<<"k", "i", "n", "d">>),
                 bestActs |-> Some(<<<<" ", "x", " ">>, <<" ">>>>),
                 worstActs |-> Undefined]>>]

\* The same visible part with another hidden part
PgReplyOther ==
  [PgReplyFull EXCEPT
     !.hidden = <<[bio |-> Undefined, bestActs |-> Some(<<>>),
                   worstActs |-> Some(<<<<"t", "h", "e", "f", "t">>>>)]>>]

PgReplyNoHidden == [PgReplyFull EXCEPT !.hidden = <<>>]

PgReplyGarbage == [kind |-> "text", json |-> FALSE, visible |-> <<>>, hidden |-> <<>>]

PgReplies == {ReplyThrow, PgReplyGarbage, PgReplyFull, PgReplyOther, PgReplyNoHidden}

Alignments == {"GOOD", "EVIL"}

\* What pickFaceEmoji may return (its code is not part of the sources, the
\* handler takes its value as it comes), and a case number that stands for
\* caseNumberFromSeed where the seed does not matter
FaceEmojis == {<<"face1">>}
CaseNumbers == {4321}

\* A profile that an earlier version of the handler cached: no caseNumber, a
\* name with a nickname
LegacyProfile ==
  [version |-> 1, dateKey |-> Some(<<"d">>), mode |-> "daily", gameId |-> <<"d">>,
   alignment |-> "EVIL", faceEmoji |-> <<"face1">>,
   visible |-> [caseNumber |-> Undefined,
                name |-> <<"A", "l", " ", "'", "X", "'", " ", "B", "o">>,
                age |-> 42, occupation |-> UnknownWord, causeOfDeath |-> UnknownWord],
   hidden |-> FallbackProfile.hidden]

PgResponse(mode, dateKey, gameId, visible, faceEmoji) ==
  [mode |-> mode, dateKey |-> dateKey, gameId |-> gameId, visible |-> visible,
   faceEmoji |-> faceEmoji]

\* The visible part after the back-compat rewrite of a cached profile
PgBackCompat(existing, desiredCaseNumber) ==
  LET currentCaseNumber == existing.visible.caseNumber
      needsCaseNumber ==
        \/ currentCaseNumber = <<>>
        \/ currentCaseNumber[1] < 1000
        \/ currentCaseNumber[1] > 9999
      desiredName == sanitizeName(existing.visible.name)
      needsNameSanitize == desiredName # existing.visible.name
  IN  [changed |-> needsCaseNumber \/ needsNameSanitize,
       visible |-> [existing.visible EXCEPT
                      !.caseNumber = IF needsCaseNumber THEN Some(desiredCaseNumber) ELSE @,
                      !.name = IF needsNameSanitize THEN desiredName ELSE @]]

\* What the generation branch stores and answers
PgGenerated(pr, alignment, faceEmoji, caseNumber, reply) ==
  LET parsed == parseCharacterResponse(reply)
  IN  [profile |->
         [version |-> 1,
          dateKey |-> IF pr.mode = "daily" THEN Some(pr.dateKey) ELSE Undefined,
          mode |-> pr.mode, gameId |-> pr.gameId, alignment |-> alignment,
          faceEmoji |-> faceEmoji,
          visible |-> [parsed.visible EXCEPT !.caseNumber = Some(caseNumber)],
          hidden |-> parsed.hidden],
       body |-> PgResponse(pr.mode, pr.dateKey, pr.gameId, parsed.visible, faceEmoji)]

\* The request is parsed and checked, the key derived
PgStartBegin(p, req) ==
  /\ procs[p].pc \in {"idle", "done"}
  /\ calls' = calls + 1
  /\ LET mode == ModeOf(req)
         fresh == [IdleProc EXCEPT !.op = "pgstart", !.req = req, !.mode = mode]
     IN  IF mode = "daily" /\ Falsy(req.dateKey)
         THEN /\ procs' = [procs EXCEPT ![p] =
                   Answer(fresh, 400, "Missing dateKey for daily mode", <<>>)]
              /\ UNCHANGED uuidCount
         ELSE IF mode = "daily"
         THEN /\ procs' = [procs EXCEPT ![p] =
                   [fresh EXCEPT !.pc = "read", !.dateKey = req.dateKey[1],
                                 !.gameId = req.dateKey[1],
                                 !.key = dailyProfileKey(req.dateKey[1])]]
              /\ UNCHANGED uuidCount
         ELSE /\ uuidCount < MaxGames
              /\ uuidCount' = uuidCount + 1
              /\ procs' = [procs EXCEPT ![p] =
                   [fresh EXCEPT !.pc = "gen", !.dateKey = OrElse(req.dateKey, DebugWord),
                                 !.gameId = Uuid(uuidCount + 1),
                                 !.key = randomProfileKey(Uuid(uuidCount + 1))]]
  /\ UNCHANGED <<env, now, ticks, store, firstCached, promised, lastStart, keyArgs, sanitized, kvLog, hook>>

\* Daily mode: the cache is read; a cached profile is answered, after the
\* back-compat rewrite when it needs one
PgStartRead(p, desiredCaseNumber) ==
  LET pr == procs[p]
      got == kvGetJSON(store, pr.key, now)
      seen == [pr EXCEPT !.kvReads = @ + 1, !.readAt = now]
      existing == got.value[1]
      compat == PgBackCompat(existing, desiredCaseNumber)
      updated == [existing EXCEPT !.visible = compat.visible]
  IN  /\ pr.op = "pgstart" /\ pr.pc = "read"
      /\ IF got.value = <<>>
         THEN /\ store' = got.store
              /\ procs' = [procs EXCEPT ![p] = [seen EXCEPT !.pc = "gen"]]
         ELSE IF compat.changed
         THEN /\ store' = kvSetJSON(got.store, pr.key, updated, DAILY_TTL_SECONDS, now)
              /\ procs' = [procs EXCEPT ![p] =
                   Answer([seen EXCEPT !.kvWrites = @ + 1, !.sawCached = TRUE], 200, "",
                          PgResponse("daily", pr.dateKey, updated.gameId, updated.visible,
                                     updated.faceEmoji))]
         ELSE /\ store' = got.store
              /\ procs' = [procs EXCEPT ![p] =
                   Answer([seen EXCEPT !.sawCached = TRUE], 200, "",
                          PgResponse("daily", pr.dateKey, existing.gameId, existing.visible,
                                     existing.faceEmoji))]
      /\ UNCHANGED <<env, now, ticks, uuidCount, calls, firstCached, promised, lastStart,
                     keyArgs, sanitized, kvLog, hook>>

\* The alignment is drawn, the profile generated and stored, the visible
\* part answered
PgStartGen(p, alignment, faceEmoji, caseNumber, reply) ==
  LET pr == procs[p]
      called == [pr EXCEPT !.genCalls = @ + 1]
      made == PgGenerated(pr, alignment, faceEmoji, caseNumber, reply)
  IN  /\ pr.op = "pgstart" /\ pr.pc = "gen"
      /\ IF reply.kind = "throw"
         THEN /\ procs' = [procs EXCEPT ![p] =
                   Answer([called EXCEPT !.backendThrew = TRUE], 500,
                          "Failed to start game", <<>>)]
              /\ UNCHANGED store
         ELSE /\ store' = kvSetJSON(store, pr.key, made.profile, TtlFor(pr.mode), now)
              /\ procs' = [procs EXCEPT ![p] =
                   Answer([called EXCEPT !.kvWrites = @ + 1], 200, "", made.body)]
      /\ UNCHANGED <<env, now, ticks, uuidCount, calls, firstCached, promised, lastStart,
                     keyArgs, sanitized, kvLog, hook>>

(***************************************************************************)
(* Requests and specifications.                                            *)
(***************************************************************************)


StartRequests ==
  {[NoReq EXCEPT !.mode = "daily", !.dateKey = dk] : dk \in {Undefined, Some(<<>>), Some(<<" ">>), Some(<<" ", "d">>)}}
    \cup {[NoReq EXCEPT !.mode = m] : m \in {"daily", "debug-random", "classic"} \ {"daily"}}

\* The deployments: every pair of settings occurs in one of them
PadD == <<" ", "d">>

DailyReq == [NoReq EXCEPT !.mode = "daily", !.dateKey = Some(PadD), !.inventionId = "A",
                          !.text = Some(<<"x">>), !.investedUsd = Half(3001)]

RandomReq == [NoReq EXCEPT !.mode = "debug-random", !.gameId = Some(Uuid(1)),
                           !.inventionId = "B", !.text = Some(<<" ", "x", " ">>),
                           !.investedUsd = Num(1000000)]

\* The bodies sent to revise: two that pass the checks, one for each check
ReviseRequests ==
  {DailyReq, RandomReq,
   [DailyReq EXCEPT !.dateKey = Some(<<" ">>)],
   [RandomReq EXCEPT !.gameId = Undefined],
   [DailyReq EXCEPT !.inventionId = "D"],
   [DailyReq EXCEPT !.text = Some(<<" ">>)],
   [DailyReq EXCEPT !.text = Some([i \in 1..(MAX_SUGGESTION_CHARS + 1) |-> "x"])]}

\* The bodies sent to simulate
SimulateRequests ==
  {DailyReq, RandomReq,
   [DailyReq EXCEPT !.dateKey = Undefined],
   [DailyReq EXCEPT !.inventionId = ""],
   [DailyReq EXCEPT !.text = Undefined],
   [DailyReq EXCEPT !.investedUsd = NaN],
   [DailyReq EXCEPT !.investedUsd = Half(1)]}

Envs ==
  {[imagesEnabled |-> TRUE, canPersist |-> TRUE, legacy |-> FALSE],
   [imagesEnabled |-> TRUE, canPersist |-> FALSE, legacy |-> TRUE],
   [imagesEnabled |-> FALSE, canPersist |-> FALSE, legacy |-> FALSE],
   [imagesEnabled |-> FALSE, canPersist |-> TRUE, legacy |-> TRUE]}

Init ==
  /\ env \in Envs
  /\ now = 0
  /\ ticks = 0
  /\ store = <<>>
  /\ uuidCount = 0
  /\ calls = 0
  /\ procs = [p \in Clients |-> IdleProc]
  /\ firstCached = <<>>
  /\ promised = <<>>
  /\ lastStart = <<>>
  /\ keyArgs = <<>>
  /\ sanitized = <<>>
  /\ kvLog = NoKvLog
  /\ hook = NoHook

\* Requests are served one after the other, by one client
Next ==
  \/ \E req \in StartRequests : calls < MaxCalls /\ StartBegin("c1", req)
  \/ StartRead("c1")
  \/ \E reply \in GenReplies(Len(procs["c1"].inventions) + 1) : StartGen("c1", reply)
  \/ \E imgs \in ImageChoices : StartFinish("c1", imgs)
  \/ \E imgs \in ImageChoices : StartHit("c1", imgs)
  \/ \E req \in ReviseRequests : calls < MaxCalls /\ ReviseLookup("c1", req)
  \/ \E reply \in ReviseReplies : ReviseCall("c1", reply)
  \/ \E req \in SimulateRequests : calls < MaxCalls /\ SimulateLookup("c1", req)
  \/ \E reply \in SimReplies : SimulateCall("c1", reply)
  \/ \E d \in TickSteps : Tick(d)

Spec == Init /\ [][Next]_vars

(***************************************************************************)
(* Two clients that start the same daily game at the same time: the steps  *)
(* of their handlers interleave at every await.                            *)
(***************************************************************************)
RaceRequest == [NoReq EXCEPT !.mode = "daily", !.dateKey = Some(PadD)]

NextRace ==
  \E p \in Clients :
    \/ calls < MaxCalls /\ StartBegin(p, RaceRequest)
    \/ StartRead(p)
    \/ \E reply \in GenReplies(Len(procs[p].inventions) + 1) : StartGen(p, reply)
    \/ \E imgs \in ImageChoices : StartFinish(p, imgs)
    \/ \E imgs \in ImageChoices : StartHit(p, imgs)

SpecRace == Init /\ [][NextRace]_vars

(***************************************************************************)
(* The key-derivation functions on their own, applied to pairs of ids.     *)
(***************************************************************************)

KeyIds == {<<>>} \cup {<<c>> : c \in {"a", ":", "d"}} \cup {<<c, e>> : c \in {"a", ":", "d"}, e \in {"a", ":", "d"}}

DeriveKeys(x, y) ==
  /\ keyArgs' = <<[x |-> x, y |-> y,
                   investDailyX |-> investSlateKeyFor("daily", y, Some(x)),
                   investDailyY |-> investSlateKeyFor("daily", x, Some(y)),
                   investRandomX |-> investSlateKeyFor("debug-random", x, Some(y)),
                   investRandomY |-> investSlateKeyFor("debug-random", y, Undefined),
                   profileDailyX |-> profileKeyFor("daily", y, Some(x)),
                   profileDailyY |-> profileKeyFor("daily", x, Some(y)),
                   profileRandomX |-> profileKeyFor("debug-random", x, Undefined),
                   profileRandomY |-> profileKeyFor("debug-random", y, Some(x))]>>
  /\ UNCHANGED <<env, now, ticks, store, uuidCount, calls, procs, firstCached, promised,
                 lastStart, sanitized, kvLog, hook>>

NextKeys == \E x \in KeyIds, y \in KeyIds : DeriveKeys(x, y)

SpecKeys == Init /\ [][NextKeys]_vars

(***************************************************************************)
(* Both games on one server: client c1 plays the invest game, client c2    *)
(* starts Pearly Gates games. Requests are served one after the other.     *)
(***************************************************************************)
\* Number of requests that are served in one behaviour of both games
MaxGameCalls == 3

PgStartRequests ==
  {[NoReq EXCEPT !.mode = m, !.dateKey = dk] :
     m \in {"daily", "debug-random"}, dk \in {Undefined, Some(<<"d">>)}}

InitGames ==
  /\ env = [imagesEnabled |-> TRUE, canPersist |-> FALSE, legacy |-> FALSE]
  /\ now = 0
  /\ ticks = 0
  /\ store \in {<<>>, kvSetJSON(<<>>, dailyProfileKey(<<"d">>), LegacyProfile,
                                DAILY_TTL_SECONDS, 0)}
  /\ uuidCount = 0
  /\ calls = 0
  /\ procs = [p \in Clients |-> IdleProc]
  /\ firstCached = <<>>
  /\ promised = <<>>
  /\ lastStart = <<>>
  /\ keyArgs = <<>>
  /\ sanitized = <<>>
  /\ kvLog = NoKvLog
  /\ hook = NoHook

\* No handler is in the middle of a request
Quiet == calls < MaxGameCalls /\ \A p \in Clients : procs[p].pc \in {"idle", "done"}

NextGames ==
  \/ Quiet /\ StartBegin("c1", [NoReq EXCEPT !.mode = "daily", !.dateKey = Some(PadD)])
  \/ StartRead("c1")
  \/ \E reply \in {ReplyFull, ReplyInRange} : StartGen("c1", reply)
  \/ \E imgs \in ImageChoices : StartFinish("c1", imgs)
  \/ \E imgs \in ImageChoices : StartHit("c1", imgs)
  \/ Quiet /\ ReviseLookup("c1", DailyReq)
  \/ \E reply \in {ReviseReplyLabelled} : ReviseCall("c1", reply)
  \/ Quiet /\ SimulateLookup("c1", DailyReq)
  \/ \E reply \in {SimReplyHuge} : SimulateCall("c1", reply)
  \/ \E req \in PgStartRequests : Quiet /\ PgStartBegin("c2", req)
  \/ \E caseNumber \in CaseNumbers : PgStartRead("c2", caseNumber)
  \/ \E alignment \in Alignments, faceEmoji \in FaceEmojis, caseNumber \in CaseNumbers,
        reply \in PgReplies :
       PgStartGen("c2", alignment, faceEmoji, caseNumber, reply)

SpecGames == InitGames /\ [][NextGames]_vars

(***************************************************************************)
(* The starts of the two games on one cache store whose clock advances.    *)
(***************************************************************************)
NextTtl ==
  \/ \E m \in {"daily", "debug-random"} :
       Quiet /\ StartBegin("c1", [NoReq EXCEPT !.mode = m, !.dateKey = Some(PadD)])
  \/ StartRead("c1")
  \/ StartGen("c1", ReplyFull)
  \/ \E imgs \in ImageChoices : StartFinish("c1", imgs)
  \/ \E imgs \in ImageChoices : StartHit("c1", imgs)
  \/ \E req \in PgStartRequests : Quiet /\ PgStartBegin("c2", req)
  \/ \E caseNumber \in CaseNumbers : PgStartRead("c2", caseNumber)
  \/ \E faceEmoji \in FaceEmojis, caseNumber \in CaseNumbers :
       PgStartGen("c2", "GOOD", faceEmoji, caseNumber, PgReplyFull)
  \/ \E d \in TickSteps : Tick(d)

SpecTtl == InitGames /\ [][NextTtl]_vars

(***************************************************************************)
(* The invest handlers on a store whose calls may raise: with Vercel KV    *)
(* configured, kvGetJSON and kvSetJSON await the KV client, whose promise  *)
(* may reject. The rejection leaves the handler through its catch block.   *)
(* procs[p].storeThrew records the call that raised.                       *)
(***************************************************************************)
\* The read of the start handler raises
KvGetRejects(p) ==
  LET pr == procs[p]
  IN  /\ pr.op = "start" /\ pr.pc = "read"
      /\ procs' = [procs EXCEPT ![p] =
           Answer([pr EXCEPT !.storeThrew = "get", !.readAt = now], 500,
                  "Failed to start invest game", <<>>)]
      /\ UNCHANGED <<env, now, ticks, store, uuidCount, calls, firstCached, promised,
                     lastStart, keyArgs, sanitized, kvLog, hook>>

\* The read of the revise or of the simulate handler raises; the body has
\* passed the checks that come before the read
LookupRejects(p, op, req) ==
  LET pr == LookupLocals(op, req)
      err == IF op = "revise" THEN ReviseError(pr) ELSE SimulateError(pr)
      failed == IF op = "revise" THEN "Failed to revise pitch"
                ELSE "Failed to simulate market"
      k == investSlateKeyFor(pr.mode, pr.gameId, Some(pr.dateKey))
  IN  /\ procs[p].pc \in {"idle", "done"}
      /\ err = "" /\ k.ok
      /\ calls' = calls + 1
      /\ procs' = [procs EXCEPT ![p] =
           Answer([pr EXCEPT !.key = k.key, !.storeThrew = "get", !.readAt = now], 500,
                  failed, <<>>)]
      /\ UNCHANGED <<env, now, ticks, store, uuidCount, firstCached, promised, lastStart,
                     keyArgs, sanitized, kvLog, hook>>

KvSetRejectsSwallowed(p) ==
  LET pr == procs[p]
      body == [mode |-> pr.mode, dateKey |-> pr.dateKey, gameId |-> pr.gameId,
               inventions |-> pr.inventions]
  IN  /\ pr.op = "start"
      /\ pr.pc = "finish" \/ (pr.pc = "hit" /\ ~env.canPersist)
      /\ procs' = [procs EXCEPT ![p] =
           Answer([pr EXCEPT !.storeThrew = "set"], 200, "", body)]
      /\ UNCHANGED <<env, now, ticks, store, uuidCount, calls, firstCached, promised,
                     lastStart, keyArgs, sanitized, kvLog, hook>>

\* The write of the start handler raises: the write of the generated slate,
\* or the write of a cached slate in a deployment without blob token
KvSetRejects(p) ==
  LET pr == procs[p]
  IN  /\ pr.op = "start"
      /\ pr.pc = "finish" \/ (pr.pc = "hit" /\ ~env.canPersist)
      /\ procs' = [procs EXCEPT ![p] =
           Answer([pr EXCEPT !.storeThrew = "set"], 500,
                  "Failed to start invest game", <<>>)]
      /\ UNCHANGED <<env, now, ticks, store, uuidCount, calls, firstCached, promised,
                     lastStart, keyArgs, sanitized, kvLog, hook>>

NextOutage ==
  \/ Quiet /\ StartBegin("c1", [NoReq EXCEPT !.mode = "daily", !.dateKey = Some(PadD)])
  \/ StartRead("c1")
  \/ \E reply \in {ReplyFull, ReplyGarbage} : StartGen("c1", reply)
  \/ \E imgs \in ImageChoices : StartFinish("c1", imgs)
  \/ \E imgs \in ImageChoices : StartHit("c1", imgs)
  \/ Quiet /\ ReviseLookup("c1", DailyReq)
  \/ ReviseCall("c1", ReviseReplyLabelled)
  \/ Quiet /\ SimulateLookup("c1", DailyReq)
  \/ SimulateCall("c1", SimReplyHuge)
  \/ KvGetRejects("c1")
  \/ \E op \in {"revise", "simulate"} : Quiet /\ LookupRejects("c1", op, DailyReq)
  \/ KvSetRejects("c1")

SpecOutage == Init /\ [][NextOutage]_vars

(***************************************************************************)
(* The client hook useInvestorGame. Its state is hook: the React state     *)
(* (bankroll, day, error), localStorage (ls), and per slot the invocation  *)
(* of an asynchronous callback with the values its closure captured. A     *)
(* fetch of slot p is served by the handler invocation procs[p].           *)
(* A bankroll amount is [t, big]: the natural number big (t = "num"), the  *)
(* negative number -big (t = "neg"), Infinity (t = "inf"), or what JSON    *)
(* makes of a non-finite number, null (t = "null").                        *)
(***************************************************************************)
INVEST_STARTING_BANKROLL_USD == 100000
INVEST_BANKROLL_FLOOR_USD == 10000

\* The number of user events and mounts of the client specification
MaxClientOps == 4
\* The number of calendar days of the client specification
MaxDays == 2

\* todayInvestDateKey on the n-th day
todayInvestDateKey(n) == <<"d">> \o NumToString(n)

Usd(n) == [t |-> "num", big |-> BigOf(n)]

\* JSON.stringify and JSON.parse of a number: NaN and Infinity become null
JsonNumber(x) == IF x.t \in {"nan", "inf"} THEN [t |-> "null", h |-> 0] ELSE x

makeInitialBankroll ==
  [bankrollUsd |-> Usd(INVEST_STARTING_BANKROLL_USD), lastSeenDateKey |-> Undefined]

\* reviveBankroll of the stored item, <<>> when there is none
reviveBankroll(raw) ==
  IF raw = <<>> THEN <<>>
  ELSE IF raw[1].bankrollUsd.t = "null" THEN <<>>
  ELSE raw

makeEmptyDayState(mode, dateKey, gameId) ==
  [mode |-> mode, dateKey |-> dateKey, gameId |-> gameId,
   inventions |->
     [i \in 1..Len(InventionIds) |->
        [id |-> InventionIds[i], title |-> <<>>, pitch |-> <<>>, category |-> <<>>,
         descriptors |-> <<<<>>, <<>>>>, valuationUsd |-> 0, unitPriceUsd |-> 0,
         imageUrl |-> Undefined]] \o <<>>,
   selectedInventionId |-> Undefined, suggestion |-> <<>>, revisedPitch |-> <<>>,
   investedUsd |-> Undefined, ownershipShare |-> Undefined, isComplete |-> FALSE,
   sim |-> Undefined]

\* reviveDayState of the stored item
reviveDayState(raw) ==
  IF raw = <<>> THEN <<>>
  ELSE IF raw[1].dateKey = <<>> \/ raw[1].gameId = <<>> \/ Len(raw[1].inventions) # 3
  THEN <<>>
  ELSE IF raw[1].mode # "daily" /\ raw[1].mode # "debug-random" THEN <<>>
  ELSE raw

\* The two persist effects: localStorage after a render with state h
Persist(h) ==
  [h EXCEPT !.ls =
     [bankroll |-> <<[h.bankroll[1] EXCEPT !.bankrollUsd =
                        IF @.t = "inf" THEN [t |-> "null", big |-> <<>>] ELSE @]>>,
      day |-> <<[h.day[1] EXCEPT
                   !.investedUsd = IF @ = <<>> THEN @ ELSE <<JsonNumber(@[1])>>,
                   !.ownershipShare =
                     IF @ = <<>> THEN @
                     ELSE IF @[1] = NaN THEN <<JsonNumber(NaN)>> ELSE @]>>]]

\* hasSlate
hasSlate(day) ==
  \A i \in 1..Len(day.inventions) :
    /\ day.inventions[i].title # <<>>
    /\ day.inventions[i].pitch # <<>>
    /\ day.inventions[i].valuationUsd # 0

\* The bankroll the floor effect sets: the floor when the amount is below
\* it, non-finite or not positive
BankrollFloor(bankrollUsd) ==
  IF bankrollUsd.t = "neg" THEN Usd(INVEST_BANKROLL_FLOOR_USD)
  ELSE IF bankrollUsd.t = "num" /\ ~BigLeq(BigOf(INVEST_BANKROLL_FLOOR_USD), bankrollUsd.big)
  THEN Usd(INVEST_BANKROLL_FLOOR_USD)
  ELSE IF bankrollUsd.t # "num" THEN Usd(INVEST_BANKROLL_FLOOR_USD)
  ELSE bankrollUsd

ClientMaxInvestOfValuation(valuationUsd, bankrollUsd) == Max(0, MaxInvest(valuationUsd))

\* Math.max(0, Math.min(maxInvestFromValuation, Math.floor(bankroll.bankrollUsd)))
ClientMaxInvest(valuationUsd, bankrollUsd) ==
  LET maxInvestFromValuation == MaxInvest(valuationUsd)
  IN  IF bankrollUsd.t = "neg" THEN 0
      ELSE IF bankrollUsd.t = "inf" THEN Max(0, maxInvestFromValuation)
      ELSE IF BigLeq(BigOf(Max(0, maxInvestFromValuation)), bankrollUsd.big)
      THEN Max(0, maxInvestFromValuation)
      ELSE bankrollUsd.big[1] + (IF Len(bankrollUsd.big) > 1 THEN 1000 * bankrollUsd.big[2] ELSE 0)

\* Math.max(0, Math.min(Math.floor(investedUsd), maxInvest)): NaN for NaN
ClientAmount(investedUsd, maxInvest) ==
  IF investedUsd.t = "nan" THEN NaN
  ELSE IF investedUsd.t = "inf" THEN Num(maxInvest)
  ELSE Num(Max(0, Min(MathFloor(investedUsd), maxInvest)))

\* Math.max(0, Math.round(prev.bankrollUsd - amount + sim.payoutUsd)) for a
\* positive integer amount and a natural payout
BankrollAfter(prev, amount, payoutUsd) ==
  IF prev.t = "inf" THEN prev
  ELSE IF prev.t = "neg"
  THEN [t |-> "num", big |-> BigMinus(payoutUsd, BigPlus(prev.big, BigOf(amount), 0))]
  ELSE [prev EXCEPT !.big = BigMinus(BigPlus(prev.big, payoutUsd, 0), BigOf(amount))]

\* The body revise and simulate requests share, built from the day that
\* the closure of the callback holds
FetchBody(day) ==
  [NoReq EXCEPT !.mode = day.mode, !.dateKey = Some(day.dateKey),
                !.gameId = Some(day.gameId),
                !.inventionId = IF day.selectedInventionId = <<>> THEN ""
                                 ELSE day.selectedInventionId[1]]

\* A slot is free when no invocation uses it and no handler runs in it
SlotFree(p) == hook.calls[p].kind = "none" /\ procs[p].pc \in {"idle", "done"}

\* The hook after a render in which setDay has replaced the day
WithDay(h, day) == Persist([h EXCEPT !.day = <<day>>, !.ensured = FALSE])

\* The floor effect is due: bankroll.lastSeenDateKey !== todayKey
FloorEffectDueWhenLow(h) ==
  \/ h.bankroll[1].lastSeenDateKey # Some(todayInvestDateKey(h.today))
  \/ BankrollFloor(h.bankroll[1].bankrollUsd) # h.bankroll[1].bankrollUsd

FloorEffectDue(h) == h.bankroll[1].lastSeenDateKey # Some(todayInvestDateKey(h.today))

\* The effect that loads the slate is due
EnsureSlateDue(h) == ~h.day[1].isComplete /\ ~hasSlate(h.day[1]) /\ ~h.ensured

\* A user event is handled once the effects of the last render have run
Rendered ==
  /\ hook.mounted
  /\ hook.ops < MaxClientOps
  /\ ~FloorEffectDue(hook)
  /\ ~EnsureSlateDue(hook)

\* The player acts on a slate that is shown
Interactive ==
  /\ Rendered
  /\ hasSlate(hook.day[1]) \/ hook.day[1].isComplete

\* The cards of a slate that could not be loaded are shown empty
Blank == Rendered /\ hook.error /\ \A p \in Clients : hook.calls[p].kind = "none"

\* The page is loaded (again) on the n-th day: the mount effect reads
\* localStorage. Invocations of the previous page are gone. The page is
\* loaded between two requests of the server.
Mount(n) ==
  LET todayKey == todayInvestDateKey(n)
      revivedBankroll == reviveBankroll(hook.ls.bankroll)
      revivedDay == reviveDayState(hook.ls.day)
  IN  /\ hook.ops < MaxClientOps
      /\ n \in {hook.today, hook.today + 1} \cap 1..MaxDays
      /\ \A p \in Clients : procs[p].pc \in {"idle", "done"}
      /\ hook' = Persist(
           [hook EXCEPT
              !.mounted = TRUE, !.today = n, !.ops = @ + 1, !.ensured = FALSE,
              !.error = FALSE, !.calls = [p \in Clients |-> NoCall], !.views = @ + 1,
              !.bankroll = IF revivedBankroll = <<>> THEN <<makeInitialBankroll>>
                           ELSE revivedBankroll,
              !.day = IF /\ revivedDay # <<>>
                         /\ revivedDay[1].mode = "daily"
                         /\ revivedDay[1].dateKey = todayKey
                      THEN revivedDay
                      ELSE <<makeEmptyDayState("daily", todayKey, todayKey)>>])
      /\ UNCHANGED <<env, now, ticks, store, uuidCount, calls, procs, firstCached, promised,
                     lastStart, keyArgs, sanitized, kvLog>>

\* The effect that applies the bankroll floor on the first view of a day
FloorEffect ==
  /\ hook.mounted
  /\ FloorEffectDue(hook)
  /\ hook' = Persist(
       [hook EXCEPT
          !.bankroll = <<[lastSeenDateKey |-> Some(todayInvestDateKey(hook.today)),
                          bankrollUsd |-> BankrollFloor(hook.bankroll[1].bankrollUsd)]>>,
          !.floored = <<[from |-> hook.bankroll[1].bankrollUsd, today |-> hook.today,
                         views |-> hook.views,
                         nth |-> IF @ # <<>> /\ @[1].today = hook.today THEN @[1].nth + 1
                                 ELSE 1]>>])
  /\ UNCHANGED <<env, now, ticks, store, uuidCount, calls, procs, firstCached, promised,
                 lastStart, keyArgs, sanitized, kvLog>>

\* start(mode) up to its fetch, in slot p; h is the hook as the caller
\* leaves it
start(p, mode, h) ==
  /\ SlotFree(p)
  /\ procs' = [procs EXCEPT ![p] = IdleProc]
  /\ hook' = [h EXCEPT
       !.error = FALSE,
       !.calls[p] = [kind |-> "start", pc |-> "fetch", endpoint |-> "start",
                     req |-> [NoReq EXCEPT !.mode = mode,
                                           !.dateKey = Some(todayInvestDateKey(h.today))]]]
  /\ UNCHANGED <<env, now, ticks, store, uuidCount, calls, firstCached, promised,
                 lastStart, keyArgs, sanitized, kvLog>>

\* The effect that loads the slate calls start(day.mode)
EnsureSlate(p) ==
  /\ hook.mounted
  /\ ~FloorEffectDue(hook)
  /\ EnsureSlateDue(hook)
  /\ start(p, hook.day[1].mode, [hook EXCEPT !.ensured = TRUE])

\* startRandom
StartRandom(p) ==
  /\ Interactive
  /\ start(p, "debug-random", [hook EXCEPT !.ops = @ + 1])

\* The response of the start fetch arrives
StartResponse(p) ==
  LET data == procs[p].resp.body
      prev == hook.day[1]
      next == [makeEmptyDayState(data.mode, data.dateKey, data.gameId)
                 EXCEPT !.inventions = data.inventions]
      done == [hook EXCEPT !.calls[p] = NoCall]
  IN  /\ hook.calls[p].kind = "start" /\ procs[p].pc = "done"
      /\ hook' =
           IF procs[p].resp.status # 200 THEN [done EXCEPT !.error = TRUE]
           ELSE IF prev.mode = data.mode /\ prev.dateKey = data.dateKey /\ prev.isComplete
           THEN done
           ELSE WithDay(done, next)
      /\ UNCHANGED <<env, now, ticks, store, uuidCount, calls, procs, firstCached, promised,
                     lastStart, keyArgs, sanitized, kvLog>>

\* resetDaily
ResetDaily ==
  /\ Interactive
  /\ hook' = WithDay([hook EXCEPT !.ops = @ + 1],
                     makeEmptyDayState("daily", todayInvestDateKey(hook.today),
                                       todayInvestDateKey(hook.today)))
  /\ UNCHANGED <<env, now, ticks, store, uuidCount, calls, procs, firstCached, promised,
                 lastStart, keyArgs, sanitized, kvLog>>

\* selectInvention
SelectInvention(id) ==
  /\ Interactive \/ Blank
  /\ hook' = WithDay([hook EXCEPT !.ops = @ + 1],
                     [hook.day[1] EXCEPT !.selectedInventionId = Some(id)])
  /\ UNCHANGED <<env, now, ticks, store, uuidCount, calls, procs, firstCached, promised,
                 lastStart, keyArgs, sanitized, kvLog>>

\* setSuggestion
SetSuggestion(text) ==
  /\ Interactive
  /\ hook' = WithDay([hook EXCEPT !.ops = @ + 1], [hook.day[1] EXCEPT !.suggestion = text])
  /\ UNCHANGED <<env, now, ticks, store, uuidCount, calls, procs, firstCached, promised,
                 lastStart, keyArgs, sanitized, kvLog>>

\* revisePitch up to its fetch
RevisePitch(p) ==
  /\ Interactive
  /\ ~hook.day[1].isComplete
  /\ hook.day[1].selectedInventionId # <<>>
  /\ Trim(hook.day[1].suggestion) # <<>>
  /\ SlotFree(p)
  /\ procs' = [procs EXCEPT ![p] = IdleProc]
  /\ hook' = [hook EXCEPT
       !.ops = @ + 1, !.error = FALSE,
       !.calls[p] = [kind |-> "revise", pc |-> "fetch", endpoint |-> "revise",
                     req |-> [FetchBody(hook.day[1]) EXCEPT
                                !.text = Some(Trim(hook.day[1].suggestion))]]]
  /\ UNCHANGED <<env, now, ticks, store, uuidCount, calls, firstCached, promised,
                 lastStart, keyArgs, sanitized, kvLog>>

\* The response of the fetch of revisePitch arrives
ReviseResponse(p) ==
  LET done == [hook EXCEPT !.calls[p] = NoCall]
      revisedPitch == Trim(procs[p].resp.body.revisedPitch)
  IN  /\ hook.calls[p].kind = "revise" /\ procs[p].pc = "done"
      /\ hook' =
           IF procs[p].resp.status # 200 THEN [done EXCEPT !.error = TRUE]
           ELSE IF revisedPitch = <<>> THEN done
           ELSE WithDay(done, [hook.day[1] EXCEPT !.revisedPitch = revisedPitch])
      /\ UNCHANGED <<env, now, ticks, store, uuidCount, calls, procs, firstCached, promised,
                     lastStart, keyArgs, sanitized, kvLog>>

\* What is kept of a simulate invocation that is over: the amount asked,
\* the amount computed, the generation calls made for it, the outcome
Asked(call, outcome) ==
  <<[investedUsd |-> call.investedUsd, amount |-> call.amount, gen |-> call.gen,
     outcome |-> outcome]>>

\* simulate sending the amount the player typed instead of the clamped one
SimulateFetchTyped(h, p, call, finalPitch) ==
  WithDay(
    [h EXCEPT
       !.error = FALSE,
       !.calls[p] =
         [call EXCEPT
            !.pc = "fetch", !.endpoint = "simulate", !.finalPitch = finalPitch,
            !.req = [FetchBody(call.day) EXCEPT
                       !.text = Some(finalPitch),
                       !.investedUsd = call.investedUsd]]],
    [h.day[1] EXCEPT !.isComplete = TRUE, !.investedUsd = Some(call.amount),
                     !.ownershipShare = Some(call.share)])

\* simulate, from the lock to the fetch: the hook after them
SimulateFetch(h, p, call, finalPitch) ==
  WithDay(
    [h EXCEPT
       !.error = FALSE,
       !.calls[p] =
         [call EXCEPT
            !.pc = "fetch", !.endpoint = "simulate", !.finalPitch = finalPitch,
            !.req = [FetchBody(call.day) EXCEPT
                       !.text = Some(finalPitch),
                       \* JSON.stringify turns NaN into null, and Number(null) is 0
                       !.investedUsd = IF call.amount = NaN THEN Num(0) ELSE call.amount]]],
    [h.day[1] EXCEPT !.isComplete = TRUE, !.investedUsd = Some(call.amount),
                     !.ownershipShare = Some(call.share)])

\* simulate(investedUsd) up to its first fetch, in slot p; h is the hook as
\* the caller leaves it
simulate(p, investedUsd, h) ==
  LET day == hook.day[1]
      inv == FindInvention(day, day.selectedInventionId[1])[1]
      maxInvest == ClientMaxInvest(inv.valuationUsd, hook.bankroll[1].bankrollUsd)
      amount == ClientAmount(investedUsd, maxInvest)
      call == [kind |-> "simulate", pc |-> "fetch", endpoint |-> "revise", day |-> day,
               held |-> hook.bankroll[1].bankrollUsd, investedUsd |-> investedUsd,
               amount |-> amount, gen |-> 0, finalPitch |-> <<>>,
               share |-> IF amount = NaN THEN NaN
                         ELSE OwnershipShare(MathFloor(amount), inv.valuationUsd),
               req |-> [FetchBody(day) EXCEPT !.text = Some(Trim(day.suggestion))]]
  IN  /\ ~(day.isComplete /\ day.sim # <<>>)
      /\ day.selectedInventionId # <<>>
      /\ IF amount # NaN /\ amount.h <= 0
         THEN /\ hook' = [h EXCEPT !.asked = Asked(call, "ignored")]
              /\ UNCHANGED procs
         ELSE /\ SlotFree(p)
              /\ procs' = [procs EXCEPT ![p] = IdleProc]
              /\ hook' =
                   IF Trim(day.revisedPitch) = <<>> /\ Trim(day.suggestion) # <<>>
                   THEN [h EXCEPT !.calls[p] = call]
                   ELSE SimulateFetch(h, p, call, StrOr(Trim(day.revisedPitch), inv.pitch))
      /\ UNCHANGED <<env, now, ticks, store, uuidCount, calls, firstCached, promised,
                     lastStart, keyArgs, sanitized, kvLog>>

\* The player invests
Simulate(p, investedUsd) ==
  /\ Interactive \/ Blank
  /\ simulate(p, investedUsd, [hook EXCEPT !.ops = @ + 1])

\* retryMarket
RetryMarket(p) ==
  /\ Interactive
  /\ hook.day[1].isComplete
  /\ hook.day[1].sim = <<>>
  /\ hook.day[1].investedUsd # <<>>
  /\ hook.day[1].investedUsd[1].t # "null"
  /\ ~(hook.day[1].investedUsd[1].t = "num" /\ hook.day[1].investedUsd[1].h <= 0)
  /\ simulate(p, hook.day[1].investedUsd[1], [hook EXCEPT !.ops = @ + 1])

\* The response of fetchRevisedPitch arrives in simulate: the lock, then the
\* fetch of simulate
SimulateRevised(p) ==
  LET call == [hook.calls[p] EXCEPT !.gen = @ + procs[p].genCalls]
      inv == FindInvention(call.day, call.day.selectedInventionId[1])[1]
  IN  /\ hook.calls[p].kind = "simulate" /\ hook.calls[p].endpoint = "revise"
      /\ procs[p].pc = "done"
      /\ procs' = [procs EXCEPT ![p] = IdleProc]
      /\ hook' =
           IF procs[p].resp.status # 200
           THEN [hook EXCEPT !.calls[p] = NoCall, !.asked = Asked(call, "threw")]
           ELSE SimulateFetch(hook, p, call,
                              StrOr(Trim(procs[p].resp.body.revisedPitch), inv.pitch))
      /\ UNCHANGED <<env, now, ticks, store, uuidCount, calls, firstCached, promised,
                     lastStart, keyArgs, sanitized, kvLog>>

\* simulate whose catch block would release the lock of the run
SimulateResponseUnlocking(p) ==
  LET call == [hook.calls[p] EXCEPT !.gen = @ + procs[p].genCalls]
      data == procs[p].resp.body
      prev == hook.bankroll[1]
      nextUsd == BankrollAfter(prev.bankrollUsd, MathFloor(call.amount), data.payoutUsd)
  IN  /\ hook.calls[p].kind = "simulate" /\ hook.calls[p].endpoint = "simulate"
      /\ procs[p].pc = "done"
      /\ hook' =
           IF procs[p].resp.status # 200
           THEN WithDay([hook EXCEPT !.calls[p] = NoCall, !.error = TRUE,
                                     !.asked = Asked(call, "failed")],
                        [hook.day[1] EXCEPT !.isComplete = FALSE])
           ELSE WithDay(
                  [hook EXCEPT
                     !.calls[p] = NoCall, !.asked = Asked(call, "paid"),
                     !.bankroll = <<[prev EXCEPT !.bankrollUsd = nextUsd]>>,
                     !.tx = <<[old |-> prev.bankrollUsd, invested |-> MathFloor(call.amount),
                               payoutUsd |-> data.payoutUsd, new |-> nextUsd,
                               held |-> call.held]>>],
                  [hook.day[1] EXCEPT !.sim = Some(data), !.revisedPitch = call.finalPitch])
      /\ UNCHANGED <<env, now, ticks, store, uuidCount, calls, procs, firstCached, promised,
                     lastStart, keyArgs, sanitized, kvLog>>

\* The response of the fetch of simulate arrives: the result, the bankroll
SimulateResponse(p) ==
  LET call == [hook.calls[p] EXCEPT !.gen = @ + procs[p].genCalls]
      data == procs[p].resp.body
      prev == hook.bankroll[1]
      nextUsd == BankrollAfter(prev.bankrollUsd, MathFloor(call.amount), data.payoutUsd)
  IN  /\ hook.calls[p].kind = "simulate" /\ hook.calls[p].endpoint = "simulate"
      /\ procs[p].pc = "done"
      /\ hook' =
           IF procs[p].resp.status # 200
           THEN [hook EXCEPT !.calls[p] = NoCall, !.error = TRUE,
                             !.asked = Asked(call, "failed")]
           ELSE WithDay(
                  [hook EXCEPT
                     !.calls[p] = NoCall, !.asked = Asked(call, "paid"),
                     !.bankroll = <<[prev EXCEPT !.bankrollUsd = nextUsd]>>,
                     !.tx = <<[old |-> prev.bankrollUsd, invested |-> MathFloor(call.amount),
                               payoutUsd |-> data.payoutUsd, new |-> nextUsd,
                               held |-> call.held]>>],
                  [hook.day[1] EXCEPT !.sim = Some(data), !.revisedPitch = call.finalPitch])
      /\ UNCHANGED <<env, now, ticks, store, uuidCount, calls, procs, firstCached, promised,
                     lastStart, keyArgs, sanitized, kvLog>>

\* The handler of the route that a fetch of slot p addresses takes the
\* request; the server of the client specification handles one request at a
\* time
Serve(p) ==
  /\ hook.calls[p].pc = "fetch"
  /\ procs[p].pc = "idle"
  /\ \A q \in Clients \ {p} : procs[q].pc \in {"idle", "done"}
  /\ IF hook.calls[p].endpoint = "start" THEN StartBegin(p, hook.calls[p].req)
     ELSE IF hook.calls[p].endpoint = "revise" THEN ReviseLookup(p, hook.calls[p].req)
     ELSE SimulateLookup(p, hook.calls[p].req)

\* What the player types: an amount to invest, a suggestion
ClientAmounts == {NaN, Half(1), Num(1000000)}

\* The replies of the backend in the client specification
ClientGenReplies(idx) == IF idx = 1 /\ calls <= 2 THEN {ReplyThrow, ReplyFull} ELSE {ReplyFull}

\* The bankroll item of localStorage when the page is first loaded: none,
\* one left by a visit on an earlier day, or one whose number JSON.parse
\* reads as Infinity
StoredBankrolls ==
  {<<>>,
   <<[bankrollUsd |-> Usd(500), lastSeenDateKey |-> Some(todayInvestDateKey(0))]>>,
   <<[bankrollUsd |-> Usd(0), lastSeenDateKey |-> Some(todayInvestDateKey(0))]>>,
   <<[bankrollUsd |-> [t |-> "inf", big |-> <<>>], lastSeenDateKey |-> Undefined]>>}



InitClient ==
  /\ env = [imagesEnabled |-> FALSE, canPersist |-> FALSE, legacy |-> FALSE]
  /\ now = 0
  /\ ticks = 0
  /\ store = <<>>
  /\ uuidCount = 0
  /\ calls = 0
  /\ procs = [p \in Clients |-> IdleProc]
  /\ firstCached = <<>>
  /\ promised = <<>>
  /\ lastStart = <<>>
  /\ keyArgs = <<>>
  /\ sanitized = <<>>
  /\ kvLog = NoKvLog
  /\ hook \in {[NoHook EXCEPT !.ls.bankroll = b] : b \in StoredBankrolls}

NextClient ==
  \/ \E n \in 1..MaxDays : Mount(n)
  \/ FloorEffect
  \/ \E p \in Clients :
       \/ EnsureSlate(p)
       \/ StartRandom(p)
       \/ StartResponse(p)
       \/ RevisePitch(p)
       \/ ReviseResponse(p)
       \/ \E investedUsd \in ClientAmounts : Simulate(p, investedUsd)
       \/ RetryMarket(p)
       \/ SimulateRevised(p)
       \/ SimulateResponse(p)
       \/ Serve(p)
       \/ StartRead(p)
       \/ \E reply \in ClientGenReplies(Len(procs[p].inventions) + 1) : StartGen(p, reply)
       \/ \E imgs \in ImageChoices : StartFinish(p, imgs)
       \/ \E imgs \in ImageChoices : StartHit(p, imgs)
       \/ \E reply \in {ReplyThrow, ReviseReplyLabelled} : ReviseCall(p, reply)
       \/ \E reply \in {SimReplyGarbage, SimReplyHuge} : SimulateCall(p, reply)
  \/ ResetDaily
  \/ SelectInvention("A")
  \/ SetSuggestion(<<"x">>)

SpecClient == InitClient /\ [][NextClient]_vars

(***************************************************************************)
(* The client hook in debug-random games: the page has just been loaded on *)
(* day 1 with an empty localStorage, and the player starts random games    *)
(* and invests in them.                                                    *)
(***************************************************************************)
\* The hook after the mount effect has run on day 1 with nothing stored
LoadedHook ==
  Persist([NoHook EXCEPT
             !.mounted = TRUE, !.today = 1, !.views = 1,
             !.bankroll = <<makeInitialBankroll>>,
             !.day = <<makeEmptyDayState("daily", todayInvestDateKey(1),
                                         todayInvestDateKey(1))>>])

InitRandom ==
  /\ env = [imagesEnabled |-> FALSE, canPersist |-> FALSE, legacy |-> FALSE]
  /\ now = 0
  /\ ticks = 0
  /\ store = <<>>
  /\ uuidCount = 0
  /\ calls = 0
  /\ procs = [p \in Clients |-> IdleProc]
  /\ firstCached = <<>>
  /\ promised = <<>>
  /\ lastStart = <<>>
  /\ keyArgs = <<>>
  /\ sanitized = <<>>
  /\ kvLog = NoKvLog
  /\ hook = LoadedHook

NextRandom ==
  \/ FloorEffect
  \/ SelectInvention("A")
  \/ \E p \in Clients :
       \/ EnsureSlate(p)
       \/ StartRandom(p)
       \/ StartResponse(p)
       \/ Simulate(p, Num(1000000))
       \/ SimulateResponse(p)
       \/ Serve(p)
       \/ StartRead(p)
       \/ \E reply \in ClientGenReplies(Len(procs[p].inventions) + 1) : StartGen(p, reply)
       \/ \E imgs \in ImageChoices : StartFinish(p, imgs)
       \/ \E reply \in {SimReplyHuge} : SimulateCall(p, reply)

SpecRandom == InitRandom /\ [][NextRandom]_vars

(***************************************************************************)
(* The text sanitization functions on their own: a title with its          *)
(* descriptors, or the raw text of a pitch, is drawn from a few words and  *)
(* lines, and the function is applied to it.                               *)
(***************************************************************************)
\* The most words a title is made of, the most pieces a raw pitch is made of
MaxTitleWords == 4
MaxPitchPieces == 4

TitleWords ==
  {<<"N", "e", "o", "n">>, <<"A", "r", "m", "a", "d", "i", "l", "l", "o">>, <<"T", "a", "x">>, <<"T", "r", "a", "c", "k", "e", "r">>, <<"T", "A", "X", "E", "S", "!">>,
   <<"G", "o">>, <<"+">>}

DescriptorPairs ==
  {<<<<"n", "e", "o", "n", " ", "a", "r", "m", "a", "d", "i", "l", "l", "o">>, <<"q", "u", "a", "r", "t", "e", "r", "l", "y", " ", "t", "a", "x", "e", "s">>>>,
   <<<<"T", "i", "n", "y", " ", "V", "i", "o", "l", "i", "n">>, <<"g", "o", "-", "g", "o", " ", "t", "r", "a", "c", "k", "e", "r">>>>}

TitleSeed == <<"A", ":", "2", "5", ":", "2", "0", "0", "0", "0">>

PitchPieces ==
  {<<"H", "o", "o", "k", ":", " ", "w", "o", "w">>, <<"O", "n", "e", " ", "a", ".">>, <<"T", "w", "o", " ", "b", "!">>, <<"T", "h", "r", "e", "e", " ", "c", "?">>, <<"-", " ", "S", "o", "l", "o", "?">>}

PitchSeparators == {<<"\n">>, <<" ", " ">>}

\* The strings made of one to n parts, with a separator between two parts
RECURSIVE Texts(_, _, _)
Texts(parts, seps, n) ==
  IF n = 1 THEN parts
  ELSE LET shorter == Texts(parts, seps, n - 1)
       IN  shorter \cup {t \o sep \o part : t \in shorter, sep \in seps, part \in parts}

TitleInputs ==
  {[kind |-> "title", text |-> t, parts |-> <<>>, seps |-> <<>>, descriptors |-> d,
    seed |-> TitleSeed, out |-> <<>>] :
     t \in Texts(TitleWords, {<<" ">>}, MaxTitleWords), d \in DescriptorPairs}

\* parts[1] seps[1] parts[2] ... parts[n]
RECURSIVE Interleave(_, _, _)
Interleave(parts, seps, n) ==
  IF n = 1 THEN parts[1] ELSE Interleave(parts, seps, n - 1) \o seps[n - 1] \o parts[n]

\* The raw pitches: one to MaxPitchPieces pieces, a line break or two spaces
\* between two pieces
PitchInputs ==
  UNION {{[kind |-> "pitch", text |-> Interleave(ps, ss, n), parts |-> ps, seps |-> ss,
           descriptors |-> <<>>, seed |-> <<>>, out |-> <<>>] :
            ps \in [1..n -> PitchPieces], ss \in [1..(n - 1) -> PitchSeparators]} :
         n \in 1..MaxPitchPieces}

InitText ==
  /\ env = [imagesEnabled |-> FALSE, canPersist |-> FALSE, legacy |-> FALSE]
  /\ now = 0
  /\ ticks = 0
  /\ store = <<>>
  /\ uuidCount = 0
  /\ calls = 0
  /\ procs = [p \in Clients |-> IdleProc]
  /\ firstCached = <<>>
  /\ promised = <<>>
  /\ lastStart = <<>>
  /\ keyArgs = <<>>
  /\ sanitized \in {<<x>> : x \in TitleInputs \cup PitchInputs}
  /\ kvLog = NoKvLog
  /\ hook = NoHook

\* parseInventionResponse sanitizes the title of the reply
ApplySanitizeTitle ==
  /\ sanitized[1].kind = "title"
  /\ sanitized[1].out = <<>>
  /\ sanitized' = <<[sanitized[1] EXCEPT !.out =
                       <<sanitizeTitle(Trim(sanitized[1].text), sanitized[1].descriptors,
                                       sanitized[1].seed)>>]>>
  /\ UNCHANGED <<env, now, ticks, store, uuidCount, calls, procs, firstCached, promised,
                 lastStart, keyArgs, kvLog, hook>>

\* parseInventionResponse and parseRevisedPitch sanitize the pitch of the reply
ApplySanitizePitch ==
  /\ sanitized[1].kind = "pitch"
  /\ sanitized[1].out = <<>>
  /\ sanitized' = <<[sanitized[1] EXCEPT !.out = <<sanitizePitch(Trim(sanitized[1].text))>>]>>
  /\ UNCHANGED <<env, now, ticks, store, uuidCount, calls, procs, firstCached, promised,
                 lastStart, keyArgs, kvLog, hook>>

NextText == ApplySanitizeTitle \/ ApplySanitizePitch

SpecText == InitText /\ [][NextText]_vars

(***************************************************************************)
(* The seeded picks (pure functions): an input is drawn, the function is   *)
(* applied, and applied a second time to the same arguments.               *)
(***************************************************************************)
\* Largest bound of a range drawn for the picks
MaxRangeBound == 3

PickSeeds == {<<>>, <<"d">>, <<"2", "0", "2", "6">>, <<"d", ":", "u">>}

PickRanges == {<<lo, hi>> : lo \in 0..MaxRangeBound, hi \in 0..MaxRangeBound}

\* The arguments of pickTripletFromBuckets: up to three ranges, among them
\* the bands of the start handler
BucketInputs ==
  {[kind |-> "buckets", seed |-> s, buckets |-> b, min |-> 0, max |-> 0,
    out |-> <<>>, again |-> <<>>] :
     s \in PickSeeds,
     b \in {<<>>, <<<<5, 50>>, <<100, 500>>, <<1000, 3000>>>>}
             \cup {<<r>> : r \in PickRanges}
             \cup {<<r, <<MaxRangeBound, 0>>, r>> : r \in PickRanges}}

\* The arguments of makeVariedNumberTriplet: small ranges and the range of
\* the start handler
VariedInputs ==
  {[kind |-> "varied", seed |-> s, buckets |-> <<>>, min |-> r[1], max |-> r[2],
    out |-> <<>>, again |-> <<>>] :
     s \in PickSeeds,
     r \in {x \in PickRanges : x[1] <= x[2]}
             \cup {<<INVEST_VALUATION_MIN_USD, INVEST_VALUATION_MAX_USD>>}}

InitPicks ==
  /\ env = [imagesEnabled |-> FALSE, canPersist |-> FALSE, legacy |-> FALSE]
  /\ now = 0
  /\ ticks = 0
  /\ store = <<>>
  /\ uuidCount = 0
  /\ calls = 0
  /\ procs = [p \in Clients |-> IdleProc]
  /\ firstCached = <<>>
  /\ promised = <<>>
  /\ lastStart = <<>>
  /\ keyArgs = <<>>
  /\ sanitized \in {<<x>> : x \in BucketInputs \cup VariedInputs}
  /\ kvLog = NoKvLog
  /\ hook = NoHook

\* The triplet of a call with the arguments drawn
PickOf(x) ==
  IF x.kind = "buckets" THEN pickTripletFromBuckets(x.seed, x.buckets)
  ELSE makeVariedNumberTriplet(x.seed, x.min, x.max)

\* The first call
ApplyPick ==
  /\ sanitized[1].kind \in {"buckets", "varied"}
  /\ sanitized[1].out = <<>>
  /\ sanitized' = <<[sanitized[1] EXCEPT !.out = <<PickOf(sanitized[1])>>]>>
  /\ UNCHANGED <<env, now, ticks, store, uuidCount, calls, procs, firstCached, promised,
                 lastStart, keyArgs, kvLog, hook>>

\* The second call with the same arguments
ApplyPickAgain ==
  /\ sanitized[1].kind \in {"buckets", "varied"}
  /\ sanitized[1].out # <<>> /\ sanitized[1].again = <<>>
  /\ sanitized' = <<[sanitized[1] EXCEPT !.again = <<PickOf(sanitized[1])>>]>>
  /\ UNCHANGED <<env, now, ticks, store, uuidCount, calls, procs, firstCached, promised,
                 lastStart, keyArgs, kvLog, hook>>

NextPicks == ApplyPick \/ ApplyPickAgain

SpecPicks == InitPicks /\ [][NextPicks]_vars

(***************************************************************************)
(* sanitizeBlurb of the simulate route: the regular expressions that       *)
(* remove money and percent figures. A match is given by the index after   *)
(* its last character, 0 when the expression does not match at the index.  *)
(***************************************************************************)
\* \w, and \b between s[i - 1] and s[i]
IsWordChar(c) == IsLetter(c) \/ IsDigit(c) \/ c = "_"

WordAt(s, i) == i >= 1 /\ i <= Len(s) /\ IsWordChar(s[i])

Boundary(s, i) == WordAt(s, i - 1) # WordAt(s, i)

\* The class [\d,]
IsDC(c) == IsDigit(c) \/ c = ","

\* The index after the longest run of [\d,], of \d, of \s that starts at i
RECURSIVE DCEnd(_, _)
DCEnd(s, i) == IF i <= Len(s) /\ IsDC(s[i]) THEN DCEnd(s, i + 1) ELSE i

RECURSIVE DigitEnd(_, _)
DigitEnd(s, i) == IF i <= Len(s) /\ IsDigit(s[i]) THEN DigitEnd(s, i + 1) ELSE i

RECURSIVE SpaceEnd(_, _)
SpaceEnd(s, i) == IF i <= Len(s) /\ IsSpace(s[i]) THEN SpaceEnd(s, i + 1) ELSE i

\* (?:\.\d+)? at i, greedy
FractionEnd(s, i) ==
  IF i <= Len(s) /\ s[i] = "." /\ DigitEnd(s, i + 1) > i + 1 THEN DigitEnd(s, i + 1) ELSE i

\* The word w (lower case) at i, whatever the case of the text
Literal(s, i, w) ==
  /\ i + Len(w) - 1 <= Len(s)
  /\ \A k \in 1..Len(w) : LowerChar(s[i + k - 1]) = w[k]

\* The largest of the ends at which \b holds, 0 when there is none: what
\* greedy matching with backtracking gives when the ends tried decrease
LastBoundary(s, ends) ==
  LET ok == {e \in ends : Boundary(s, e)}
  IN  IF ok = {} THEN 0 ELSE CHOOSE e \in ok : \A f \in ok : f <= e

\* /\$[\d,]+(?:\.\d+)?/
MatchDollarSign(s, i) ==
  IF s[i] = "$" /\ DCEnd(s, i + 1) > i + 1 THEN FractionEnd(s, DCEnd(s, i + 1)) ELSE 0

\* /\bUSD\s*[\d,]+(?:\.\d+)?\b/i
MatchUsd(s, i) ==
  LET j == SpaceEnd(s, i + 3)
      d == DCEnd(s, j)
      f == FractionEnd(s, d)
  IN  IF Boundary(s, i) /\ Literal(s, i, <<"u", "s", "d">>) /\ d > j
      THEN LastBoundary(s, ((j + 1)..d) \cup ((d + 2)..f))
      ELSE 0

\* /\b[\d,]+(?:\.\d+)?\s*(dollars|bucks)\b/i
MatchDollars(s, i) ==
  LET sp == SpaceEnd(s, FractionEnd(s, DCEnd(s, i)))
      EndOf(w) == IF Literal(s, sp, w) /\ Boundary(s, sp + Len(w)) THEN sp + Len(w) ELSE 0
  IN  IF Boundary(s, i) /\ IsDC(s[i])
      THEN Max(EndOf(<<"d", "o", "l", "l", "a", "r", "s">>), EndOf(<<"b", "u", "c", "k", "s">>))
      ELSE 0

MatchPercentUnbounded(s, i) ==
  LET sp == SpaceEnd(s, DCEnd(s, i))
  IN  IF Boundary(s, i) /\ IsDC(s[i]) /\ sp <= Len(s) /\ s[sp] = "%"
      THEN sp + 1
      ELSE 0

\* /\b[\d,]+\s*%\b/: the \b after the percent sign holds only before a
\* word character
MatchPercent(s, i) ==
  LET sp == SpaceEnd(s, DCEnd(s, i))
  IN  IF Boundary(s, i) /\ IsDC(s[i]) /\ sp <= Len(s) /\ s[sp] = "%"
         /\ Boundary(s, sp + 1)
      THEN sp + 1
      ELSE 0

\* /\b[\d,]{4,}\b/
MatchBigNumber(s, i) ==
  IF Boundary(s, i) /\ IsDC(s[i]) THEN LastBoundary(s, (i + 4)..DCEnd(s, i)) ELSE 0

MatchEnd(pattern, s, i) ==
  IF pattern = "dollarSign" THEN MatchDollarSign(s, i)
  ELSE IF pattern = "usd" THEN MatchUsd(s, i)
  ELSE IF pattern = "dollars" THEN MatchDollars(s, i)
  ELSE IF pattern = "percent" THEN MatchPercent(s, i)
  ELSE MatchBigNumber(s, i)

\* s.replace(pattern, "") with the g flag, from index i on
RECURSIVE RemoveFrom(_, _, _)
RemoveFrom(pattern, s, i) ==
  IF i > Len(s) THEN <<>>
  ELSE IF MatchEnd(pattern, s, i) > 0 THEN RemoveFrom(pattern, s, MatchEnd(pattern, s, i))
  ELSE <<s[i]>> \o RemoveFrom(pattern, s, i + 1)

RemoveAll(pattern, s) == RemoveFrom(pattern, s, 1)

\* sanitizeBlurb: label lines removed, white space collapsed, the figures
\* removed one expression after the other, the first two sentences kept
sanitizeBlurb(input) ==
  LET s0 == Trim(input)
      ls == Lines(s0)
      trimmed == [k \in 1..Len(ls) |-> Trim(ls[k])] \o <<>>
      kept == SelectSeq(trimmed, LAMBDA l : ~IsLabelLine(l))
      s1 == CollapseSpaces(Join(kept, <<" ">>))
      s2 == RemoveAll("big", RemoveAll("percent", RemoveAll("dollars",
              RemoveAll("usd", RemoveAll("dollarSign", s1)))))
      sents == Sentences(CollapseSpaces(s2))
  IN  IF s0 = <<>> THEN <<>>
      ELSE Trim(Join(SubSeq(sents, 1, Min(2, Len(sents))), <<" ">>))

\* The stock blurb; its ellipsis character is written ^ here
DefaultBlurb == <<"T", "h", "e", " ", "m", "a", "r", "k", "e", "t", " ", "r", "e", "a", "c", "t", "e", "d", ".", " ", "T", "h", "e", " ", "d", "e", "t", "a", "i", "l", "s", " ", "a", "r", "e", "^", " ", "v", "i", "v", "i", "d", ".">>

\* The first line of formatMarketSummary: the blurb of the narrative
SummaryBlurb(modelBlurb) == StrOr(sanitizeBlurb(modelBlurb), DefaultBlurb)

(***************************************************************************)
(* The narrative of a simulation on its own: the blurb of the backend is   *)
(* drawn from a few words and figures, and sanitizeBlurb is applied.       *)
(***************************************************************************)
\* The most pieces a blurb is made of
MaxBlurbPieces == 3

BlurbPieces ==
  {<<"$", "7", "9", ".", "9", "9">>,
   <<"U", "S", "D", " ", "7", "9">>,
   <<"7", "9", " ", "b", "u", "c", "k", "s">>,
   <<"7", "5", "%">>,
   <<"7", "5", "%", "o", "f", "f">>,
   <<"1", ",", "0", "0", "0", ",", "0", "0", "0">>,
   <<"1", "2", "3">>,
   <<"S", "a", "l", "e", "s">>,
   <<"r", "o", "s", "e", ".">>,
   <<"u", "p", "!">>,
   <<"H", "y", "p", "e", ":", " ", "5">>}

BlurbInputs ==
  {[kind |-> "blurb", text |-> t, out |-> <<>>] :
     t \in Texts(BlurbPieces, {<<" ">>}, MaxBlurbPieces)}

InitBlurb ==
  /\ env = [imagesEnabled |-> FALSE, canPersist |-> FALSE, legacy |-> FALSE]
  /\ now = 0
  /\ ticks = 0
  /\ store = <<>>
  /\ uuidCount = 0
  /\ calls = 0
  /\ procs = [p \in Clients |-> IdleProc]
  /\ firstCached = <<>>
  /\ promised = <<>>
  /\ lastStart = <<>>
  /\ keyArgs = <<>>
  /\ sanitized \in {<<x>> : x \in BlurbInputs}
  /\ kvLog = NoKvLog
  /\ hook = NoHook

\* formatMarketSummary puts the blurb of the backend into the narrative
ApplySanitizeBlurb ==
  /\ sanitized[1].kind = "blurb"
  /\ sanitized[1].out = <<>>
  /\ sanitized' = <<[sanitized[1] EXCEPT !.out = <<SummaryBlurb(sanitized[1].text)>>]>>
  /\ UNCHANGED <<env, now, ticks, store, uuidCount, calls, procs, firstCached, promised,
                 lastStart, keyArgs, kvLog, hook>>

NextBlurb == ApplySanitizeBlurb

SpecBlurb == InitBlurb /\ [][NextBlurb]_vars

(***************************************************************************)
(* The answer parser of the Pearly Gates ask route. A reply is json (does  *)
(* JSON.parse accept it), answer (the string of the field, <<>> when it is *)
(* absent or no string) and matched (what the regular expression finds in  *)
(* the raw text, <<>> when it does not match).                             *)
(***************************************************************************)
\* The stock answer; its ellipsis character is written ^ here
DefaultAnswer == <<"I", "^", " ", "I", " ", "d", "o", "n", "'", "t", " ", "k", "n", "o", "w", " ", "h", "o", "w", " ", "t", "o", " ", "a", "n", "s", "w", "e", "r", " ", "t", "h", "a", "t", ".">>

\* clampAnswer: white space collapsed, at most 240 characters
clampAnswer(s) ==
  LET trimmed == CollapseSpaces(s)
  IN  IF Len(trimmed) <= 240 THEN trimmed
      ELSE Trim(SubSeq(trimmed, 1, 236)) \o <<"^">>

\* parseAnswerResponse: the JSON field, else what the regular expression
\* finds in the raw text, else the stock answer
parseAnswerResponse(raw) ==
  IF raw.json /\ raw.answer # <<>> /\ Trim(raw.answer[1]) # <<>>
  THEN clampAnswer(Trim(raw.answer[1]))
  ELSE IF raw.matched # <<>> /\ raw.matched[1] # <<>>
  THEN clampAnswer(Trim(raw.matched[1]))
  ELSE DefaultAnswer

(***************************************************************************)
(* The parsers of backend replies on their own: a reply is drawn and its   *)
(* parser applied. An input carries, next to the reply, what a regular     *)
(* expression of the form /"field"\s*:\s*"([\s\S]*?)"/ finds in the raw     *)
(* text: the field itself when the text is JSON with the field a string.   *)
(***************************************************************************)
ParseFixedNumbers == [unitPriceUsd |-> 25, valuationUsd |-> 20000]

ItemInputs ==
  {[kind |-> "item", raw |-> r, id |-> id, descriptors |-> d,
    matched |-> IF r.json THEN r.inv.title ELSE m, out |-> <<>>] :
     r \in {ReplyFull, ReplyEmptyObject, ReplyInRange, ReplyGarbage},
     id \in {"A", "B", "C"}, d \in DescriptorPairs,
     m \in {Undefined, Some(<<>>), Some(<<"Z", "a", "p", " ", "G", "u", "n">>)}}

TextFields(values) ==
  {[json |-> TRUE, field |-> v, matched |-> v] : v \in values \cup {Undefined}}
    \cup {[json |-> FALSE, field |-> Undefined, matched |-> m] : m \in values \cup {Undefined}}

RevisedInputs ==
  {[kind |-> "revised",
    raw |-> [kind |-> "text", json |-> f.json, revisedPitch |-> f.field, matched |-> f.matched],
    out |-> <<>>] :
     f \in TextFields({Some(<<>>), Some(<<" ", " ">>), Some(<<" ", "G", "o", ".", " ">>), ReviseReplyLabelled.revisedPitch})}

AnswerInputs ==
  {[kind |-> "answer",
    raw |-> [kind |-> "text", json |-> f.json, answer |-> f.field, matched |-> f.matched],
    out |-> <<>>] :
     f \in TextFields({Some(<<>>), Some(<<" ">>), Some(<<" ", "Y", "e", "s", ",", " ", " ", "i", "n", "d", "e", "e", "d", ".", " ">>),
                       Some(<<"N", "o", ".">>)})}

SimInputs ==
  {[kind |-> "sim",
    raw |-> [kind |-> "text", json |-> f.json,
             unitsSold |-> IF f.json THEN u.value ELSE NaN,
             narrative |-> f.field,
             unitsMatch |-> u.matched, narMatch |-> f.matched],
    out |-> <<>>] :
     f \in TextFields({Some(<<>>), Some(<<" ">>), Some(<<" ", "B", "o", "o", "m", ".", " ">>)}),
     u \in {[value |-> NaN, matched |-> Undefined], [value |-> Num(7), matched |-> Some(7)],
            [value |-> Half(5), matched |-> Some(2)]}}

InitParse ==
  /\ env = [imagesEnabled |-> FALSE, canPersist |-> FALSE, legacy |-> FALSE]
  /\ now = 0
  /\ ticks = 0
  /\ store = <<>>
  /\ uuidCount = 0
  /\ calls = 0
  /\ procs = [p \in Clients |-> IdleProc]
  /\ firstCached = <<>>
  /\ promised = <<>>
  /\ lastStart = <<>>
  /\ keyArgs = <<>>
  /\ sanitized \in {<<x>> : x \in ItemInputs \cup RevisedInputs \cup AnswerInputs \cup SimInputs}
  /\ kvLog = NoKvLog
  /\ hook = NoHook

\* The result of the parser of the input
ParseOf(x) ==
  IF x.kind = "item" THEN parseInventionResponse(x.raw, x.id, x.descriptors, ParseFixedNumbers)
  ELSE IF x.kind = "revised" THEN parseRevisedPitch(x.raw)
  ELSE IF x.kind = "answer" THEN parseAnswerResponse(x.raw)
  ELSE parseSimResponse(x.raw)

ApplyParse(kind) ==
  /\ sanitized[1].kind = kind
  /\ sanitized[1].out = <<>>
  /\ sanitized' = <<[sanitized[1] EXCEPT !.out = <<ParseOf(sanitized[1])>>]>>
  /\ UNCHANGED <<env, now, ticks, store, uuidCount, calls, procs, firstCached, promised,
                 lastStart, keyArgs, kvLog, hook>>

NextParse ==
  \/ ApplyParse("item")
  \/ ApplyParse("revised")
  \/ ApplyParse("answer")
  \/ ApplyParse("sim")

SpecParse == InitParse /\ [][NextParse]_vars

(***************************************************************************)
(* The store on its own: writers set and readers get a few keys while the  *)
(* clock advances second by second. kvLog keeps, for every key, the last   *)
(* set made on it, and the last get with the set it should have seen.      *)
(***************************************************************************)
StoreKeys == {<<"j">>, <<"k">>}
StoreValues == {<<"v">>, <<"w">>}
StoreTtls == {1, 2}

\* A writer calls kvSetJSON(key, value, {exSeconds})
KvSet(p, key, value, exSeconds) ==
  /\ kvLog.seq < MaxStoreOps
  /\ store' = kvSetJSON(store, key, value, exSeconds, now)
  /\ kvLog' = [kvLog EXCEPT
       !.seq = @ + 1,
       !.sets = [k \in DOMAIN kvLog.sets \cup {key} |->
                   IF k = key
                   THEN [by |-> p, value |-> value, at |-> now, exSeconds |-> exSeconds,
                         seq |-> kvLog.seq + 1,
                         over |-> IF key \in DOMAIN kvLog.sets
                                  THEN <<[by |-> kvLog.sets[key].by,
                                          value |-> kvLog.sets[key].value,
                                          at |-> kvLog.sets[key].at]>>
                                  ELSE <<>>]
                   ELSE kvLog.sets[k]]]
  /\ UNCHANGED <<env, now, ticks, uuidCount, calls, procs, firstCached, promised,
                 lastStart, keyArgs, sanitized, hook>>

\* A reader calls kvGetJSON(key)
KvGet(key) ==
  LET got == kvGetJSON(store, key, now)
  IN  /\ kvLog.seq < MaxStoreOps
      /\ store' = got.store
      /\ kvLog' = [kvLog EXCEPT
           !.seq = @ + 1,
           !.get = <<[key |-> key, value |-> got.value, at |-> now, seq |-> kvLog.seq + 1,
                      set |-> IF key \in DOMAIN kvLog.sets THEN <<kvLog.sets[key]>>
                              ELSE <<>>]>>]
      /\ UNCHANGED <<env, now, ticks, uuidCount, calls, procs, firstCached, promised,
                     lastStart, keyArgs, sanitized, hook>>

\* A second passes
StoreTick ==
  /\ ticks < MaxStoreTicks
  /\ ticks' = ticks + 1
  /\ now' = now + 1
  /\ UNCHANGED <<env, store, uuidCount, calls, procs, firstCached, promised, lastStart,
                 keyArgs, sanitized, kvLog, hook>>

NextStore ==
  \/ \E p \in Clients, key \in StoreKeys, value \in StoreValues, ex \in StoreTtls :
       KvSet(p, key, value, ex)
  \/ \E key \in StoreKeys : KvGet(key)
  \/ StoreTick

\* The store does not depend on the deployment: one is enough
InitStore == Init /\ env = [imagesEnabled |-> FALSE, canPersist |-> FALSE, legacy |-> FALSE]

SpecStore == InitStore /\ [][NextStore]_vars

(***************************************************************************)
(* Properties.                                                             *)
(***************************************************************************)
Done(p) == procs[p].pc = "done"

StartOk(p) == procs[p].op = "start" /\ Done(p) /\ procs[p].resp.status = 200

InBounds(inv) ==
  /\ inv.valuationUsd >= INVEST_VALUATION_MIN_USD
  /\ inv.valuationUsd <= INVEST_VALUATION_MAX_USD
  /\ inv.unitPriceUsd >= INVEST_UNIT_PRICE_MIN_USD
  /\ inv.unitPriceUsd <= INVEST_UNIT_PRICE_MAX_USD

SameNumbers(a, b) ==
  /\ Len(a) = Len(b)
  /\ \A i \in 1..Len(a) : /\ a[i].valuationUsd = b[i].valuationUsd
                          /\ a[i].unitPriceUsd = b[i].unitPriceUsd

\* C1: a start that read a live slate of three items makes no generation
\* call, and whatever calls were served, the id, title, pitch, category,
\* descriptors, valuationUsd and unitPriceUsd stored under a key are those
\* of the slate first cached under it (calls served one after the other).
C1_CachedContentIsFinal ==
  /\ \A p \in Clients :
       procs[p].op = "start" /\ procs[p].sawCached => procs[p].genCalls = 0
  /\ \A k \in DOMAIN store :
       k \in DOMAIN firstCached /\ Cores(store[k].value.inventions) = firstCached[k]

C1_Witness ==
  /\ StartOk("c1")
  /\ procs["c1"].sawCached
  /\ procs["c1"].key \in DOMAIN store
  /\ procs["c1"].readAt > 0

C3_Original ==
  (\A p \in Clients : procs[p].op = "start" /\ Done(p) /\ ~procs[p].sawCached) =>
    LET k == investDailySlateKey(Trim(PadD))
    IN  /\ DOMAIN store = {k}
        /\ Len(store[k].value.inventions) = 3
        /\ \A i \in 1..3 : InBounds(store[k].value.inventions[i])

\* C4: when a start has answered with success the slate is in the store
\* under its key, and a revise or simulate for that key with a valid item id
\* that reads no later than the expiry the start left never answers 404.
C4_StartedSlateIsFound ==
  /\ \A p \in Clients :
       StartOk(p) =>
         /\ procs[p].key \in DOMAIN store
         /\ procs[p].key \in DOMAIN promised
         /\ store[procs[p].key].expiresAt >= promised[procs[p].key]
         /\ store[procs[p].key].value.gameId = procs[p].resp.body.gameId
         /\ Len(store[procs[p].key].value.inventions) = 3
  /\ \A p \in Clients :
       /\ procs[p].op \in {"revise", "simulate"}
       /\ Done(p)
       /\ IsInventionId(procs[p].req.inventionId)
       /\ procs[p].key \in DOMAIN promised
       /\ procs[p].readAt <= promised[procs[p].key]
       => procs[p].resp.status # 404

C4_Witness ==
  /\ procs["c1"].op \in {"revise", "simulate"}
  /\ Done("c1")
  /\ procs["c1"].resp.status = 200
  /\ procs["c1"].key \in DOMAIN promised
  /\ procs["c1"].readAt > 0

\* C5: every slate in the store has exactly the items A, B, C in that
\* order, a hidden entry for each of A, B, C, and in daily mode a gameId
\* equal to its dateKey.
C5_StoredSlatesAreComplete ==
  \A k \in DOMAIN store :
    LET slate == store[k].value
    IN  /\ Len(slate.inventions) = 3
        /\ \A i \in 1..3 : slate.inventions[i].id = InventionIds[i]
        /\ DOMAIN slate.hidden = {"A", "B", "C"}
        /\ slate.mode = "daily" => slate.dateKey = Some(slate.gameId)

C5_Witness ==
  \E k \in DOMAIN store, j \in DOMAIN store :
    /\ store[k].value.mode = "daily"
    /\ store[j].value.mode = "debug-random"

\* C6: every item stored in a slate or returned by a start has its
\* valuationUsd and its unitPriceUsd within the configured bounds.
C6_NumbersWithinBounds ==
  /\ \A k \in DOMAIN store :
       \A i \in 1..Len(store[k].value.inventions) : InBounds(store[k].value.inventions[i])
  /\ \A p \in Clients :
       StartOk(p) =>
         \A i \in 1..Len(procs[p].resp.body.inventions) :
           InBounds(procs[p].resp.body.inventions[i])

C6_Witness ==
  /\ env.legacy
  /\ StartOk("c1")
  /\ procs["c1"].kvWrites = 1
  /\ procs["c1"].unparsed
  /\ procs["c1"].resp.body.inventions[3].valuationUsd = INVEST_VALUATION_MAX_USD
  /\ procs["c1"].resp.body.inventions[3].unitPriceUsd = INVEST_UNIT_PRICE_MIN_USD

\* C7 as stated: a handler whose backend call raised an exception or
\* returned text that does not parse still answers with success.
C7_Original ==
  \A p \in Clients :
    Done(p) /\ (procs[p].backendThrew \/ procs[p].unparsed) => procs[p].resp.status = 200

\* C8 as stated: a cache-miss start in which the generation of an item
\* failed still writes a slate of three items and returns it.
C8_Original ==
  \A p \in Clients :
    procs[p].op = "start" /\ Done(p) /\ (procs[p].backendThrew \/ procs[p].unparsed) =>
      /\ procs[p].resp.status = 200
      /\ procs[p].kvWrites = 1
      /\ procs[p].key \in DOMAIN store
      /\ Len(store[procs[p].key].value.inventions) = 3
      /\ Len(procs[p].resp.body.inventions) = 3

\* C9 as stated: in daily mode a dateKey that is absent, or empty once
\* trimmed, makes the key derivation fail and the handler answer 400,
\* without a cache access or a generation call.
C9_Original ==
  /\ ~investSlateKeyFor("daily", PadD, Undefined).ok
  /\ ~investSlateKeyFor("daily", PadD, Some(<<>>)).ok
  /\ \A p \in Clients :
       /\ Done(p)
       /\ procs[p].mode = "daily"
       /\ Trim(OrElse(procs[p].req.dateKey, <<>>)) = <<>>
       => /\ procs[p].resp.status = 400
          /\ procs[p].kvReads = 0
          /\ procs[p].kvWrites = 0
          /\ procs[p].genCalls = 0

C11_LocalStoreHonoursTtl ==
  kvLog.get # <<>> =>
    LET g == kvLog.get[1]
        fresh == g.set # <<>> /\ g.at <= g.set[1].at + g.set[1].exSeconds
        setSince == g.key \in DOMAIN kvLog.sets /\ kvLog.sets[g.key].seq > g.seq
    IN  /\ g.value = (IF fresh THEN <<g.set[1].value>> ELSE <<>>)
        /\ (g.value = <<>> /\ ~setSince) => g.key \notin DOMAIN store

\* A key was set, read at the very second of its expiry, and then read a
\* second later: that last get found nothing and the entry is gone
C11_Witness ==
  /\ kvLog.get # <<>>
  /\ kvLog.get[1].set # <<>>
  /\ kvLog.get[1].value = <<>>
  /\ kvLog.get[1].at = kvLog.get[1].set[1].at + kvLog.get[1].set[1].exSeconds + 1
  /\ kvLog.get[1].seq = kvLog.get[1].set[1].seq + 2
  /\ kvLog.get[1].key \notin DOMAIN store

\* C12: whatever the order in which writers set a key, the entry of the key
\* is the value and the expiry of the set applied last, a get that finds the
\* key returns that value, and the entries of the other keys are those of
\* their own last sets.
C12_LastWriteWins ==
  /\ \A k \in DOMAIN store :
       /\ k \in DOMAIN kvLog.sets
       /\ store[k] = [value |-> kvLog.sets[k].value,
                      expiresAt |-> kvLog.sets[k].at + kvLog.sets[k].exSeconds]
  /\ (kvLog.get # <<>> /\ kvLog.get[1].value # <<>>) =>
       kvLog.get[1].value = <<kvLog.get[1].set[1].value>>

\* Two writers have set the same key in the same second with different
\* values and lifetimes, another key holds its own value, and a get of the
\* contested key has returned the value written last
C12_Witness ==
  /\ DOMAIN store = StoreKeys
  /\ kvLog.seq = 4
  /\ kvLog.sets[<<"k">>].seq = 3
  /\ kvLog.sets[<<"k">>].by = "c2"
  /\ kvLog.sets[<<"k">>].over # <<>>
  /\ kvLog.sets[<<"k">>].over[1].by = "c1"
  /\ kvLog.sets[<<"k">>].over[1].at = kvLog.sets[<<"k">>].at
  /\ kvLog.sets[<<"k">>].over[1].value # kvLog.sets[<<"k">>].value
  /\ kvLog.sets[<<"k">>].exSeconds = 1
  /\ kvLog.sets[<<"k">>].at = kvLog.sets[<<"j">>].at
  /\ store[<<"k">>].value # store[<<"j">>].value
  /\ store[<<"k">>].expiresAt < store[<<"j">>].expiresAt
  /\ kvLog.get # <<>>
  /\ kvLog.get[1].key = <<"k">>
  /\ kvLog.get[1].seq = 4
  /\ kvLog.get[1].value = <<kvLog.sets[<<"k">>].value>>

\* A simulate invocation that has answered with a result
SimulateOk(p) == procs[p].op = "simulate" /\ Done(p) /\ procs[p].resp.status = 200

\* The cached item a simulate invocation was about
SimulatedItem(p) == FindInvention(store[procs[p].key].value, procs[p].req.inventionId)[1]

\* C13: the unitsSold of every simulate result is an integer from
\* INVEST_MIN_UNITS_SOLD to INVEST_MAX_UNITS_SOLD, whatever the backend
\* replied (-5, a non-number, 1000000000.5, text that is no JSON).
C13_UnitsSoldWithinRange ==
  \A p \in Clients :
    SimulateOk(p) =>
      procs[p].resp.body.unitsSold \in INVEST_MIN_UNITS_SOLD..INVEST_MAX_UNITS_SOLD

\* The backend replied with a count of a thousand million and a half, and
\* the result carries the maximum
C13_Witness ==
  /\ SimulateOk("c1")
  /\ procs["c1"].raw[1].unitsSold = Half(2000000001)
  /\ procs["c1"].resp.body.unitsSold = INVEST_MAX_UNITS_SOLD

\* C14: in every simulate result, grossRevenueUsd is unitsSold times the
\* unitPriceUsd of the cached item, and payoutUsd is grossRevenueUsd times
\* ownershipShare rounded to the nearest integer, halves upwards, with the
\* unitsSold and ownershipShare of the same result.
C14_RevenueAndPayout ==
  \A p \in Clients :
    SimulateOk(p) =>
      LET body == procs[p].resp.body
          share == body.ownershipShare
          twice == BigPlus(BigTimes(BigTimes(body.grossRevenueUsd, share.n, 0), 2, 0),
                           BigOf(share.d), 0)
          lower == BigTimes(body.payoutUsd, 2 * share.d, 0)
      IN  /\ body.grossRevenueUsd
               = BigTimes(BigOf(body.unitsSold), SimulatedItem(p).unitPriceUsd, 0)
          /\ BigLeq(lower, twice)
          /\ ~BigLeq(BigPlus(lower, BigOf(2 * share.d), 0), twice)

\* A result for the maximum of units, whose payout was rounded up
C14_Witness ==
  /\ SimulateOk("c1")
  /\ procs["c1"].resp.body.unitsSold = INVEST_MAX_UNITS_SOLD
  /\ procs["c1"].resp.body.grossRevenueUsd # <<>>
  /\ procs["c1"].resp.body.payoutUsd
       # PayoutUsdFloored(procs["c1"].resp.body.grossRevenueUsd,
                          procs["c1"].resp.body.ownershipShare)

\* Amounts a player may ask to invest, as numbers of halves
ShareAmounts == {1, 2, 3, 3001, 40000, 2000000}

\* The share simulate computes for an amount it accepts, as a fraction
ShareFor(halves, invention) ==
  OwnershipShare(InvestedUsd(Half(halves), invention), invention.valuationUsd)

\* x <= y for fractions with positive divisors
FracLeq(x, y) == BigLeq(BigTimes(BigOf(x.n), y.d, 0), BigTimes(BigOf(y.n), x.d, 0))

\* C15: the ownershipShare of a simulate result is investedUsd / valuationUsd
\* capped at 3/4; it never exceeds 3/4, its divisor (the valuation) is
\* positive, and for the item of the result the share does not decrease when
\* the requested amount increases.
C15_OwnershipShare ==
  \A p \in Clients :
    SimulateOk(p) =>
      LET share == procs[p].resp.body.ownershipShare
          item == SimulatedItem(p)
      IN  /\ share.d > 0
          /\ item.valuationUsd > 0
          /\ 4 * share.n <= 3 * share.d
          /\ FracLeq(share, [n |-> procs[p].invested, d |-> item.valuationUsd])
          /\ FracLeq([n |-> procs[p].invested, d |-> item.valuationUsd], share)
          /\ \A a \in ShareAmounts, b \in ShareAmounts :
               (a <= b /\ InvestedUsd(Half(a), item) > 0) =>
                 /\ ShareFor(a, item).d > 0
                 /\ FracLeq(ShareFor(a, item), ShareFor(b, item))

\* A result for a request of more than the item allows: the share is exactly
\* the cap
C15_Witness ==
  /\ SimulateOk("c1")
  /\ MathFloor(procs["c1"].req.investedUsd) > procs["c1"].invested
  /\ 4 * procs["c1"].resp.body.ownershipShare.n = 3 * procs["c1"].resp.body.ownershipShare.d

C17_BankrollUpdate ==
  /\ (hook.mounted /\ ~FloorEffectDue(hook)) => hook.bankroll[1].bankrollUsd.t = "num"
  /\ hook.tx # <<>> =>
       LET tx == hook.tx[1]
       IN  /\ tx.old.t = "num" /\ tx.new.t = "num" /\ tx.held.t = "num"
           /\ IF BigLeq(BigOf(tx.invested), BigPlus(tx.old.big, tx.payoutUsd, 0))
              THEN BigPlus(tx.new.big, BigOf(tx.invested), 0)
                     = BigPlus(tx.old.big, tx.payoutUsd, 0)
              ELSE tx.new.big = <<>>
           /\ tx.invested >= 1
           /\ BigLeq(BigOf(tx.invested), tx.held.big)

\* A transaction on the second day whose amount the bankroll capped, with a
\* payout
C17_Witness ==
  /\ hook.tx # <<>>
  /\ hook.today = 2
  /\ BigOf(hook.tx[1].invested) = hook.tx[1].held.big
  /\ hook.tx[1].payoutUsd # <<>>
  /\ hook.tx[1].new # hook.tx[1].old
  /\ hook.bankroll[1].bankrollUsd = hook.tx[1].new

\* C18: the floor effect acts on the first view of a new day only
\* (lastSeenDateKey differs from today's key): it sets lastSeenDateKey to
\* today's key and a bankroll that is below 10000, non-finite or not positive
\* to 10000. On a later view the same day, and in every other step that is
\* not a transaction, the bankroll is left unchanged.
C18_BankrollFloor ==
  [][LET b == hook.bankroll[1]
         after == hook'.bankroll[1]
         todayKey == Some(todayInvestDateKey(hook'.today))
     IN  (hook.mounted /\ hook'.mounted) =>
           /\ hook'.floored # hook.floored =>
                /\ b.lastSeenDateKey # todayKey
                /\ after.lastSeenDateKey = todayKey
                /\ after.bankrollUsd =
                     IF b.bankrollUsd.t = "num" /\ BigLeq(BigOf(10000), b.bankrollUsd.big)
                     THEN b.bankrollUsd
                     ELSE Usd(10000)
           /\ (b.lastSeenDateKey = todayKey /\ hook'.tx = hook.tx) => after = b]_vars

\* The bankroll 500 of an earlier day was raised on the first view of the
\* day, a transaction then reduced it below the floor, and the page was viewed
\* again the same day
C18_Witness ==
  /\ hook.mounted
  /\ hook.floored # <<>>
  /\ hook.floored[1].from = Usd(500)
  /\ hook.floored[1].today = hook.today
  /\ hook.floored[1].views < hook.views
  /\ hook.tx # <<>>
  /\ hook.tx[1].old = Usd(10000)
  /\ hook.bankroll[1].bankrollUsd = hook.tx[1].new
  /\ ~BigLeq(BigOf(10000), hook.bankroll[1].bankrollUsd.big)
  /\ hook.bankroll[1].lastSeenDateKey = Some(todayInvestDateKey(hook.today))

\* The names of the fields that hold hidden truth
HiddenFields ==
  {"hidden", "notes", "regulatoryRisk", "demandProfile", "alignment", "bio", "bestActs",
   "worstActs"}

\* A hidden record of a slate that no generation of the model produces
OtherHidden ==
  [id \in {"A", "B", "C"} |->
     [notes |-> <<"z">>, regulatoryRisk |-> "medium", demandProfile |-> "mainstream"]]

\* C19: no response of start, revise, simulate or the Pearly Gates start has
\* a field of the hidden record, of the hidden profile or the alignment; the
\* response of a cache-hit start is the same for a slate that differs only in
\* its hidden record; the response of a generating Pearly Gates start is the
\* same for either alignment and for replies of the backend that differ only
\* in their hidden part.
C19_HiddenNotExposed ==
  \A p \in Clients :
    /\ (Done(p) /\ procs[p].resp.status = 200) =>
         LET body == procs[p].resp.body
         IN  /\ DOMAIN body \cap HiddenFields = {}
             /\ procs[p].op = "start" =>
                  \A i \in 1..Len(body.inventions) :
                    DOMAIN body.inventions[i] \cap HiddenFields = {}
             /\ procs[p].op = "pgstart" => DOMAIN body.visible \cap HiddenFields = {}
    /\ (procs[p].op = "start" /\ procs[p].pc = "hit") =>
         \A imgs \in ImageChoices :
           LET existing == procs[p].existing[1]
               other == [existing EXCEPT !.hidden = OtherHidden]
           IN  /\ other # existing
               /\ HitBody(procs[p], other, HitInventions(other, imgs))
                    = HitBody(procs[p], existing, HitInventions(existing, imgs))
    /\ (procs[p].op = "pgstart" /\ procs[p].pc = "gen") =>
         \A a1 \in Alignments, a2 \in Alignments, f \in FaceEmojis, c \in CaseNumbers,
            r1 \in PgReplies \ {ReplyThrow}, r2 \in PgReplies \ {ReplyThrow} :
           (/\ r1.json = r2.json
            /\ r1.visible = r2.visible
            /\ (r1.hidden = <<>>) = (r2.hidden = <<>>)) =>
             PgGenerated(procs[p], a1, f, c, r1).body = PgGenerated(procs[p], a2, f, c, r2).body

\* A cache-hit start was answered for a slate whose hidden record holds
\* generated truth, and a Pearly Gates start was answered for a stored
\* profile of alignment EVIL with a generated hidden profile
C19_Witness ==
  /\ StartOk("c1")
  /\ procs["c1"].sawCached
  /\ store[procs["c1"].key].value.hidden["A"] # DefaultHidden
  /\ procs["c2"].op = "pgstart" /\ Done("c2") /\ procs["c2"].resp.status = 200
  /\ procs["c2"].genCalls = 1
  /\ store[procs["c2"].key].value.alignment = "EVIL"
  /\ store[procs["c2"].key].value.hidden.bio = <<"k", "i", "n", "d">>

\* C20 as stated: every handler that answers InvalidArgument (status 400) has
\* neither read the cache nor called the text-generation backend.
C20_Original ==
  \A p \in Clients :
    (Done(p) /\ procs[p].resp.status = 400) =>
      (procs[p].kvReads = 0 /\ procs[p].genCalls = 0)

\* C21: a revise or simulate request that passes the checks of its body and
\* reads the cache when no live slate is under its key (never created,
\* expired, or another id), or when the slate has no item of the id asked
\* for, is answered 404 without a generation call and without a cache write:
\* the read adds no entry to the store and changes none.
C21_NotFound ==
  [][\A p \in Clients :
       LET pr == procs'[p]
       IN  (/\ calls' = calls + 1
            /\ pr.op \in {"revise", "simulate"}
            /\ pr.kvReads = 1
            /\ \/ ~IsLive(store, pr.key, now)
               \/ FindInvention(store[pr.key].value, pr.req.inventionId) = <<>>)
           => /\ pr.pc = "done"
              /\ pr.resp.status = 404
              /\ pr.genCalls = 0
              /\ pr.kvWrites = 0
              /\ \A k \in DOMAIN store' : k \in DOMAIN store /\ store'[k] = store[k]]_vars

\* A daily slate was started, its 30 days passed, and a revise or simulate
\* for its key then found nothing
C21_Witness ==
  /\ procs["c1"].op \in {"revise", "simulate"}
  /\ Done("c1")
  /\ procs["c1"].resp.status = 404
  /\ procs["c1"].mode = "daily"
  /\ procs["c1"].key \in DOMAIN promised
  /\ procs["c1"].readAt > promised[procs["c1"].key]
  /\ procs["c1"].key \notin DOMAIN store

\* C22 as stated: a debug-random start that answers with success has read
\* no cached slate, made its three generation calls, minted the newest
\* gameId and stored the slate under the random key of that gameId; and when
\* the hook receives the successful response of a start("debug-random"), its
\* day then holds the gameId of the response with isComplete = false.
C22_Original ==
  [][/\ \A p \in Clients :
          (StartOk(p) /\ procs[p].mode = "debug-random") =>
            /\ ~procs[p].sawCached
            /\ procs[p].genCalls = 3
            /\ procs[p].key = investRandomSlateKey(procs[p].resp.body.gameId)
     /\ \A p \in Clients :
          (/\ hook.calls[p].kind = "start"
           /\ hook.calls[p].req.mode = "debug-random"
           /\ hook'.calls[p].kind = "none"
           /\ hook'.views = hook.views
           /\ procs[p].pc = "done"
           /\ procs[p].resp.status = 200) =>
            /\ hook'.day[1].gameId = procs[p].resp.body.gameId
            /\ ~hook'.day[1].isComplete]_vars

\* The elements of a sequence
Range(seq) == {seq[i] : i \in 1..Len(seq)}

\* The title that sanitizeTitle was applied to, and what it returned
TitleDone == sanitized # <<>> /\ sanitized[1].kind = "title" /\ sanitized[1].out # <<>>

\* The words of three or more characters of both descriptors, normalized
DescriptorWords(descriptors) ==
  {normalizeWord(w) : w \in {x \in Range(Words(descriptors[1])) \cup Range(Words(descriptors[2])) :
                                Len(normalizeWord(x)) >= 3}}

\* C23 as stated: no token of a sanitized title matches a word (of three or
\* more characters, whatever the case) of either descriptor; for the
\* descriptors "neon armadillo" and "quarterly taxes" and the title "Neon
\* Armadillo Tax Tracker" no token of the result is neon, armadillo, tax or
\* taxes; and when the words that remain make fewer than 3 characters the
\* result is the fallback name, which is not empty.
C23_Original ==
  TitleDone =>
    LET t == sanitized[1]
        out == t.out[1]
        tokens == {normalizeWord(w) : w \in Range(Words(out))}
        remainder ==
          Join(SelectSeq(Words([i \in 1..Len(t.text) |->
                                  IF t.text[i] = "+" THEN " " ELSE t.text[i]]),
                         LAMBDA w : normalizeWord(w) \notin DescriptorWords(t.descriptors)),
               <<" ">>)
    IN  /\ tokens \cap DescriptorWords(t.descriptors) = {}
        /\ (/\ t.descriptors = <<<<"n", "e", "o", "n", " ", "a", "r", "m", "a", "d", "i", "l", "l", "o">>, <<"q", "u", "a", "r", "t", "e", "r", "l", "y", " ", "t", "a", "x", "e", "s">>>>
            /\ t.text = <<"N", "e", "o", "n", " ", "A", "r", "m", "a", "d", "i", "l", "l", "o", " ", "T", "a", "x", " ", "T", "r", "a", "c", "k", "e", "r">>) =>
             tokens \cap {<<"n", "e", "o", "n">>, <<"a", "r", "m", "a", "d", "i", "l", "l", "o">>, <<"t", "a", "x">>, <<"t", "a", "x", "e", "s">>} = {}
        /\ Len(remainder) < 3 =>
             (out = fallbackTitle(t.descriptors, t.seed) /\ out # <<>>)

\* The pitch that sanitizePitch was applied to, and what it returned
PitchDone == sanitized # <<>> /\ sanitized[1].kind = "pitch" /\ sanitized[1].out # <<>>

\* The first two sentences of a raw pitch given as pieces, computed on the
\* pieces: a line runs from a piece that follows a line break to the next
\* line break; a line that begins with the piece "Hook: wow" is a label line
\* and is left out; the piece "- Solo?" at the beginning of a line loses its
\* bullet; a sentence ends with a piece that ends in . ! or ?
FirstTwoSentences(parts, seps) ==
  LET n == Len(parts)
      LineStart(i) == i = 1 \/ seps[i - 1] = <<"\n">>
      LineOf(i) == CHOOSE j \in 1..i : LineStart(j) /\ \A k \in (j + 1)..i : ~LineStart(k)
      Shown(i) == IF parts[i] = <<"-", " ", "S", "o", "l", "o", "?">> /\ LineStart(i) THEN <<"S", "o", "l", "o", "?">> ELSE parts[i]
      keptAt == {i \in 1..n : parts[LineOf(i)] # <<"H", "o", "o", "k", ":", " ", "w", "o", "w">>}
      Ends(i) == IsTerminator(parts[i][Len(parts[i])])
      endsBefore(i) == Cardinality({j \in keptAt : j < i /\ Ends(j)})
      taken == {i \in keptAt : endsBefore(i) < 2}
      Nth(k) == CHOOSE i \in taken : Cardinality({j \in taken : j < i}) = k - 1
  IN  Join([k \in 1..Cardinality(taken) |-> Shown(Nth(k))], <<" ">>)

\* C24: sanitizePitch returns the first two sentences of the text that is
\* left when the label lines and the leading bullets are removed, joined by
\* one space (all of it when it has fewer than three sentences, an
\* unterminated last fragment being a sentence); the result has no line
\* break, no two spaces in a row and no space at either end.
C24_PitchSanitized ==
  PitchDone =>
    LET out == sanitized[1].out[1]
    IN  /\ out = FirstTwoSentences(sanitized[1].parts, sanitized[1].seps)
        /\ \A i \in 1..Len(out) : out[i] # "\n"
        /\ \A i \in 1..(Len(out) - 1) : ~(out[i] = " " /\ out[i + 1] = " ")
        /\ out = Trim(out)

\* A bullet and three sentences on one line after a label line, two spaces
\* between the pieces: the label line and the bullet are gone, the third
\* sentence is cut
C24_Witness ==
  /\ PitchDone
  /\ sanitized[1].text = <<"H", "o", "o", "k", ":", " ", "w", "o", "w", "\n", "-", " ", "S", "o", "l", "o", "?", " ", " ", "O", "n", "e", " ", "a", ".", " ", " ", "T", "w", "o", " ", "b", "!">>
  /\ sanitized[1].out[1] = <<"S", "o", "l", "o", "?", " ", "O", "n", "e", " ", "a", ".">>

\* sanitizePitch was applied to a line "Hook: wow" followed by three
\* sentences, each of them one of the pieces that end in . ! or ? and begin
\* with a letter
HookScenario ==
  /\ PitchDone
  /\ Len(sanitized[1].parts) = 4
  /\ sanitized[1].parts[1] = <<"H", "o", "o", "k", ":", " ", "w", "o", "w">>
  /\ sanitized[1].seps[1] = <<"\n">>
  /\ \A i \in 2..4 : sanitized[1].parts[i] \in {<<"O", "n", "e", " ", "a", ".">>, <<"T", "w", "o", " ", "b", "!">>, <<"T", "h", "r", "e", "e", " ", "c", "?">>}

\* C25 as stated: for a raw text of a leading "Hook: ..." line and three
\* sentences, the result is the second and the third sentence of the text
\* without the header, joined by one space.
C25_Original ==
  HookScenario =>
    sanitized[1].out[1] = sanitized[1].parts[3] \o <<" ">> \o sanitized[1].parts[4]

\* C25 as amended: for a raw text of a leading "Hook: ..." line and three
\* sentences, the result is the first and the second sentence of the text
\* without the header, joined by one space; it holds nothing of the label
\* line.
C25_HookScenario ==
  HookScenario =>
    /\ sanitized[1].out[1] = sanitized[1].parts[2] \o <<" ">> \o sanitized[1].parts[3]
    /\ SubSeq(sanitized[1].out[1], 1, 4) # <<"H", "o", "o", "k">>

C25_Witness ==
  /\ HookScenario
  /\ sanitized[1].text = <<"H", "o", "o", "k", ":", " ", "w", "o", "w", "\n", "O", "n", "e", " ", "a", ".", " ", " ", "T", "w", "o", " ", "b", "!", "\n", "T", "h", "r", "e", "e", " ", "c", "?">>
  /\ sanitized[1].out[1] = <<"O", "n", "e", " ", "a", ".", " ", "T", "w", "o", " ", "b", "!">>

\* The items to which the backfill of a cache-hit start attached an image URL
\* that can be stored, the stored item having none
Backfilled(existing, returned) ==
  {i \in 1..Len(returned) :
     /\ env.canPersist
     /\ Falsy(existing.inventions[i].imageUrl)
     /\ ~Falsy(returned[i].imageUrl)}

\* C26 as stated: the step in which a cache-hit start answers writes the
\* slate if and only if the backfill attached a storable image URL to an
\* item that had none, and the slate it writes holds those URLs; when nothing
\* changed the entry of the key is left as it was.
C26_Original ==
  [][\A p \in Clients :
       (procs[p].op = "start" /\ procs[p].pc = "hit" /\ procs'[p].pc = "done") =>
         LET existing == procs[p].existing[1]
             returned == procs'[p].resp.body.inventions
             changed == Backfilled(existing, returned) # {}
         IN  /\ (procs'[p].kvWrites = 1) <=> changed
             /\ ~changed => store'[procs[p].key] = store[procs[p].key]
             /\ \A i \in Backfilled(existing, returned) :
                  store'[procs[p].key].value.inventions[i].imageUrl = returned[i].imageUrl]_vars

\* C27: every write of an invest slate or of a Pearly Gates profile sets the
\* expiry of the entry to the time of the write plus the TTL of the mode of
\* the value, 30 days for daily and 24 hours for debug-random; and a start
\* that reads its key later than the expiry of the entry finds nothing: it
\* does not answer from the cache, and goes on to generate.
C27_WritesCarryTtl ==
  [][/\ \A k \in DOMAIN store' :
          (k \notin DOMAIN store \/ store'[k] # store[k]) =>
            store'[k].expiresAt =
              now + (IF store'[k].value.mode = "daily" THEN 60 * 60 * 24 * 30
                                                        ELSE 60 * 60 * 24)
     /\ \A p \in Clients :
          (/\ procs[p].op \in {"start", "pgstart"}
           /\ procs[p].pc = "read"
           /\ procs'[p].kvReads = 1
           /\ procs[p].key \in DOMAIN store
           /\ now > store[procs[p].key].expiresAt)
          => /\ procs'[p].pc = "gen"
             /\ ~procs'[p].sawCached
             /\ procs[p].key \notin DOMAIN store']_vars

\* A daily slate was not found by a start 30 days and a second after it was
\* written, and the start has generated and stored a new one, which expires
\* 30 days after that start
C27_Witness ==
  /\ procs["c1"].op = "start" /\ procs["c1"].mode = "daily"
  /\ Done("c1") /\ procs["c1"].resp.status = 200
  /\ procs["c1"].key \in DOMAIN promised
  /\ now = 60 * 60 * 24 * 30 + 1
  /\ procs["c1"].readAt = now
  /\ ~procs["c1"].sawCached
  /\ procs["c1"].genCalls = 3
  /\ store[procs["c1"].key].expiresAt = now + 60 * 60 * 24 * 30

C29_StoreFailureSurfaced ==
  [][\A p \in Clients :
       LET pr == procs'[p]
       IN  /\ pr.storeThrew # "" =>
                /\ pr.pc = "done" /\ pr.resp.status = 500 /\ pr.resp.body = <<>>
                /\ pr.kvWrites = 0
                /\ store' = store
           /\ pr.storeThrew = "get" =>
                /\ pr.op \in {"start", "revise", "simulate"}
                /\ pr.genCalls = 0
           /\ (procs[p].op = "start" /\ procs[p].pc = "finish" /\ pr.pc = "done"
               /\ pr.resp.status = 200) =>
                /\ pr.key \in DOMAIN store'
                /\ store'[pr.key].expiresAt >= now
                /\ store'[pr.key].value.gameId = pr.resp.body.gameId
                /\ Len(store'[pr.key].value.inventions) = 3]_vars

\* The write at the end of a cache-miss start raised after its three
\* generation calls: the caller got the 500 response and no slate is stored
C29_Witness ==
  /\ procs["c1"].op = "start"
  /\ procs["c1"].storeThrew = "set"
  /\ ~procs["c1"].sawCached
  /\ procs["c1"].genCalls = 3
  /\ Done("c1") /\ procs["c1"].resp.status = 500
  /\ procs["c1"].key \notin DOMAIN store

\* The valuationUsd and unitPriceUsd of the items A, B and C of a start
\* response
NumbersOf(body) ==
  [i \in 1..Len(body.inventions) |->
     [id |-> body.inventions[i].id,
      valuationUsd |-> body.inventions[i].valuationUsd,
      unitPriceUsd |-> body.inventions[i].unitPriceUsd]]

\* C30 as stated: for a fixed daily dateKey any two generations of the slate
\* give each item A, B and C the same valuationUsd and unitPriceUsd, whatever
\* the backend replied in either generation: a start that generated after an
\* earlier successful start for the dateKey (a regeneration after expiry, or
\* the later of two racing first-time starts) returns the numbers of the
\* earlier one, and two clients that both generated hold the same numbers.
C30_Original ==
  /\ \A p \in Clients :
       (StartOk(p) /\ procs[p].mode = "daily" /\ ~procs[p].sawCached
        /\ procs[p].prev # <<>>) =>
         SameNumbers(procs[p].prev[1].items, NumbersOf(procs[p].resp.body))
  /\ \A p, q \in Clients :
       (/\ StartOk(p) /\ StartOk(q)
        /\ procs[p].mode = "daily" /\ procs[q].mode = "daily"
        /\ procs[p].dateKey = procs[q].dateKey
        /\ ~procs[p].sawCached /\ ~procs[q].sawCached) =>
         NumbersOf(procs[p].resp.body) = NumbersOf(procs[q].resp.body)


\* The ranges that a call picks from: the three padded buckets of
\* pickTripletFromBuckets, the three buckets makeVariedNumberTriplet builds
RangesOf(x) ==
  IF x.kind = "buckets" THEN PadBuckets(x.buckets) ELSE VariedBuckets(x.min, x.max)

\* Value v is a pick from range r: within [min(lo, hi), max(lo, hi)], and lo
\* when the span is 0
PickedFrom(v, r) ==
  /\ Min(r[1], r[2]) <= v /\ v <= Max(r[1], r[2])
  /\ r[1] = r[2] => v = r[1]

HasDollarAmount(s) == \E i \in 1..(Len(s) - 1) : s[i] = "$" /\ IsDigit(s[i + 1])

HasUsdAmount(s) ==
  \E i \in 1..Len(s) :
    /\ Boundary(s, i) /\ Literal(s, i, <<"u", "s", "d">>)
    /\ SpaceEnd(s, i + 3) <= Len(s) /\ IsDigit(s[SpaceEnd(s, i + 3)])

HasDollarsWord(s) ==
  \E i \in 1..Len(s) :
    /\ IsDigit(s[i])
    /\ \E w \in {<<"d", "o", "l", "l", "a", "r", "s">>, <<"b", "u", "c", "k", "s">>} :
         Literal(s, SpaceEnd(s, i + 1), w) /\ ~WordAt(s, SpaceEnd(s, i + 1) + Len(w))

HasPercent(s) ==
  \E i \in 1..Len(s) :
    IsDigit(s[i]) /\ SpaceEnd(s, i + 1) <= Len(s) /\ s[SpaceEnd(s, i + 1)] = "%"

HasBareBigNumber(s) ==
  \E i \in 1..Len(s) :
    /\ ~WordAt(s, i - 1)
    /\ DigitEnd(s, i) >= i + 4
    /\ ~WordAt(s, DigitEnd(s, i))

\* C32 as stated: the blurb placed in the narrative holds no "$N", no
\* "USD N", no "N dollars" or "N bucks", no "N%" and no bare number of four
\* or more digits.
C32_Original ==
  (sanitized[1].kind = "blurb" /\ sanitized[1].out # <<>>) =>
    LET out == sanitized[1].out[1]
    IN  /\ ~HasDollarAmount(out)
        /\ ~HasUsdAmount(out)
        /\ ~HasDollarsWord(out)
        /\ ~HasPercent(out)
        /\ ~HasBareBigNumber(out)

\* A text field of a reply is usable when it is a string that is not blank
Usable(field) == field # <<>> /\ Trim(field[1]) # <<>>

\* The three stages for a text field: the JSON value when the reply is JSON
\* with the field usable, else what the regular expression extracts from the
\* raw text, else nothing
Staged(json, field, matched) ==
  IF json /\ Usable(field) THEN field
  ELSE IF matched # <<>> /\ matched[1] # <<>> THEN matched
  ELSE Undefined

\* The result out is the staged value v as the parser cleans it (used), the
\* fallback when there is no staged value; for a blank extracted value
\* either is accepted
FromStages(out, v, used, fallback) ==
  IF v = <<>> THEN out = fallback
  ELSE IF Trim(v[1]) = <<>> THEN out \in {used, fallback}
  ELSE out = used

\* C33 as stated: the item, revised-pitch, simulation and answer parsers
\* take each text field from the JSON value when the reply is JSON with the
\* field, else from what a regular expression extracts from the raw text,
\* and return the fallback value only when both fail.
C33_Original ==
  (sanitized[1].kind \in {"item", "revised", "answer", "sim"} /\ sanitized[1].out # <<>>) =>
    LET x == sanitized[1]
        out == x.out[1]
    IN  /\ x.kind = "item" =>
             LET v == Staged(x.raw.json, IF x.raw.json THEN x.raw.inv.title ELSE Undefined,
                             x.matched)
             IN  Usable(v) =>
                   out.invention.title =
                     sanitizeTitle(Trim(v[1]), x.descriptors,
                                   <<x.id>> \o <<":", "2", "5", ":", "2", "0", "0", "0", "0">>)
        /\ x.kind = "revised" =>
             LET v == Staged(x.raw.json, x.raw.revisedPitch, x.raw.matched)
             IN  FromStages(out, v, sanitizePitch(Trim(OrElse(v, <<>>))), DefaultRevisedPitch)
        /\ x.kind = "answer" =>
             LET v == Staged(x.raw.json, x.raw.answer, x.raw.matched)
             IN  FromStages(out, v, clampAnswer(Trim(OrElse(v, <<>>))), DefaultAnswer)
        /\ x.kind = "sim" =>
             LET v == Staged(x.raw.json, x.raw.narrative, x.raw.narMatch)
             IN  FromStages(out.narrative, v, Trim(OrElse(v, <<>>)), DefaultNarrative)

(***************************************************************************)
(* The market of one daily run: the page is loaded on day 1 with an empty  *)
(* localStorage, the player picks one of two inventions, may suggest a     *)
(* revision, invests and retries; the backend of simulate answers or       *)
(* throws.                                                                 *)
(***************************************************************************)
\* What the player types as the amount: less than one dollar, one dollar,
\* more than the bankroll
MarketAmounts == {Half(1), Num(1), Num(1000000)}

NextMarket ==
  \/ FloorEffect
  \/ SelectInvention("A")
  \/ SelectInvention("B")
  \/ SetSuggestion(<<"x">>)
  \/ \E p \in Clients :
       \/ EnsureSlate(p)
       \/ StartResponse(p)
       \/ RevisePitch(p)
       \/ ReviseResponse(p)
       \/ \E investedUsd \in MarketAmounts : Simulate(p, investedUsd)
       \/ RetryMarket(p)
       \/ SimulateRevised(p)
       \/ SimulateResponse(p)
       \/ Serve(p)
       \/ StartRead(p)
       \/ StartGen(p, ReplyFull)
       \/ \E imgs \in ImageChoices : StartFinish(p, imgs)
       \/ \E reply \in {ReplyThrow, ReviseReplyLabelled} : ReviseCall(p, reply)
       \/ \E reply \in {ReplyThrow, SimReplyHuge} : SimulateCall(p, reply)

SpecMarket == InitRandom /\ [][NextMarket]_vars

\* ---------------------------------------------------------------------------
\* C34 as stated: at most one bankroll transaction is applied per game run.
\* A step in which the response of a simulate fetch debits the invested
\* amount and credits the payout is taken only on a run that has no result
\* yet: when the invocation was made on the run that is shown (same mode,
\* dateKey and gameId), that run's sim is still unset.
TransactionApplied(p) ==
  /\ hook.calls[p].kind = "simulate" /\ hook.calls[p].endpoint = "simulate"
  /\ procs[p].pc = "done" /\ procs[p].resp.status = 200
  /\ hook'.calls[p] = NoCall
  /\ hook'.mounted /\ hook'.ops = hook.ops

C34_Original ==
  [][\A p \in Clients :
       /\ TransactionApplied(p)
       /\ hook.calls[p].day.mode = hook.day[1].mode
       /\ hook.calls[p].day.dateKey = hook.day[1].dateKey
       /\ hook.calls[p].day.gameId = hook.day[1].gameId
       => hook.day[1].sim = <<>>]_vars
\* ---------------------------------------------------------------------------
\* The response of the simulate fetch of slot p is an error
SimulateFailed(p) ==
  /\ hook.calls[p].kind = "simulate" /\ hook.calls[p].endpoint = "simulate"
  /\ procs[p].pc = "done" /\ procs[p].resp.status # 200
  /\ hook'.calls[p] = NoCall
  /\ hook'.mounted /\ hook'.ops = hook.ops

\* retryMarket, called on h, passes its guards and those of simulate up to
\* the request
RetryReissues(h) ==
  LET day == h.day[1]
      inv == FindInvention(day, day.selectedInventionId[1])[1]
      amount == ClientAmount(day.investedUsd[1],
                             ClientMaxInvest(inv.valuationUsd, h.bankroll[1].bankrollUsd))
  IN  /\ day.isComplete /\ day.sim = <<>>
      /\ day.selectedInventionId # <<>>
      /\ day.investedUsd # <<>> /\ day.investedUsd[1].t # "null"
      /\ ~(day.investedUsd[1].t = "num" /\ day.investedUsd[1].h <= 0)
      /\ amount = NaN \/ amount.h > 0

\* Simulate failed with a real amount and retryMarket has re-issued the
\* request for the same amount: it is in flight, nothing was paid
C35_Witness ==
  /\ hook.asked # <<>> /\ hook.asked[1].outcome = "failed"
  /\ hook.asked[1].amount.t = "num"
  /\ hook.tx = <<>>
  /\ hook.day[1].isComplete /\ hook.day[1].sim = <<>>
  /\ \E p \in Clients :
       /\ hook.calls[p].kind = "simulate" /\ hook.calls[p].endpoint = "simulate"
       /\ hook.calls[p].investedUsd = hook.asked[1].amount
       /\ hook.calls[p].amount = hook.asked[1].amount
       /\ \A q \in Clients \ {p} : hook.calls[q] = NoCall

\* C35: a step in which a simulate request fails leaves the bankroll and the
\* day (no sim result, the lock and the locked amount) unchanged, and on a
\* run that is locked without a result retryMarket then passes its guards
\* and re-issues the request; apart from the page load and the daily floor,
\* the bankroll changes only in a step that receives a successful result.
C35_FailedSimulateKeepsLock ==
  [][/\ \A p \in Clients :
          SimulateFailed(p) =>
            /\ hook'.bankroll = hook.bankroll
            /\ hook'.day = hook.day
            /\ hook'.ls = hook.ls
            /\ hook'.tx = hook.tx
            /\ (hook.day[1].isComplete /\ hook.day[1].sim = <<>>) => RetryReissues(hook')
     /\ (hook'.bankroll # hook.bankroll /\ hook.mounted /\ hook'.ops = hook.ops
         /\ hook'.floored = hook.floored)
          => \E p \in Clients : TransactionApplied(p)]_vars
\* ---------------------------------------------------------------------------
\* A simulate invocation of slot p locks the run in this step
Locks(p) ==
  /\ hook'.calls[p].kind = "simulate" /\ hook'.calls[p].endpoint = "simulate"
  /\ ~(hook.calls[p].kind = "simulate" /\ hook.calls[p].endpoint = "simulate")

\* C36 as stated: once simulate has locked the run, the invention and the
\* amount of the investment are fixed. In every step on a locked run that
\* stays the run shown, the selected invention is unchanged; the locked
\* amount is unchanged unless a simulate asked with another amount locks
\* again; and a request that is issued for the locked amount (retryMarket)
\* carries the inventionId and the investedUsd that the day held as locked.
C36_Original ==
  [][(/\ hook.mounted /\ hook'.mounted
      /\ hook.day[1].isComplete /\ hook'.day[1].isComplete
      /\ hook.day[1].investedUsd # <<>>
      /\ hook'.day[1].gameId = hook.day[1].gameId
      /\ hook'.day[1].mode = hook.day[1].mode)
     => /\ hook'.day[1].selectedInventionId = hook.day[1].selectedInventionId
        /\ hook'.day[1].investedUsd # hook.day[1].investedUsd
             => \E p \in Clients :
                  Locks(p) /\ hook'.calls[p].investedUsd # hook.day[1].investedUsd[1]
        /\ \A p \in Clients :
             (Locks(p) /\ hook'.calls[p].investedUsd = hook.day[1].investedUsd[1])
               => /\ hook'.calls[p].req.inventionId = hook.day[1].selectedInventionId[1]
                  /\ hook'.calls[p].req.investedUsd = hook.day[1].investedUsd[1]]_vars
\* ---------------------------------------------------------------------------
\* A successful simulate asked with more than the player may invest: the
\* clamped amount was debited and the share recorded at the lock is the
\* share of the result
C37_Witness ==
  /\ hook.tx # <<>>
  /\ hook.asked # <<>> /\ hook.asked[1].outcome = "paid"
  /\ hook.asked[1].investedUsd = Num(1000000)
  /\ hook.asked[1].amount = Num(hook.tx[1].invested)
  /\ hook.tx[1].invested < 1000000
  /\ hook.day[1].sim # <<>>
  /\ hook.day[1].ownershipShare = Some(hook.day[1].sim[1].ownershipShare)

\* C37: client and server agree on every transaction. In every step that
\* applies the result of a successful simulate, the amount debited from the
\* bankroll is the investedUsd from which the handler computed ownershipShare
\* and payoutUsd, and the ownershipShare that this invocation recorded when
\* it locked the run is the ownershipShare of the response.
C37_ClientServerAgree ==
  [][\A p \in Clients :
       TransactionApplied(p) =>
         /\ hook'.tx # <<>>
         /\ hook'.tx[1].invested = procs[p].invested
         /\ hook.calls[p].amount = Num(procs[p].invested)
         /\ hook.calls[p].share = procs[p].resp.body.ownershipShare
         /\ hook'.day[1].sim = Some(procs[p].resp.body)]_vars
\* ---------------------------------------------------------------------------
\* A simulate was answered 200 after time had passed since the start, and a
\* revise or simulate before it had its backend call fail or not: the slate
\* is still stored with the expiry that the start gave it
C38_Witness ==
  /\ procs["c1"].op = "simulate"
  /\ Done("c1")
  /\ procs["c1"].resp.status = 200
  /\ procs["c1"].key \in DOMAIN store
  /\ procs["c1"].key \in DOMAIN promised
  /\ store[procs["c1"].key].expiresAt = promised[procs["c1"].key]
  /\ procs["c1"].readAt > 0

\* C38: revise and simulate are read-only on the cache. In every step of
\* either handler, on every path, the handler has made no cache write, every
\* entry of the store after the step was there before it with the same value
\* and the same expiry, and an entry that is gone is the entry of the key
\* read, which had expired.
C38_FollowUpsReadOnly ==
  [][\A p \in Clients :
       (procs'[p] # procs[p] /\ procs'[p].op \in {"revise", "simulate"})
         => /\ procs'[p].kvWrites = 0
            /\ \A k \in DOMAIN store' : k \in DOMAIN store /\ store'[k] = store[k]
            /\ \A k \in DOMAIN store \ DOMAIN store' :
                 /\ now > store[k].expiresAt
                 /\ k = procs'[p].key
                 /\ procs'[p].resp.status = 404]_vars
(***************************************************************************)
(* The ask handler of Pearly Gates (POST of the ask route), up to the      *)
(* answer. The bodies sent have a question within MAX_QUESTION_CHARS and   *)
(* fewer than MAX_QUESTIONS earlier answers: the two limits are defined    *)
(* outside the sources.                                                    *)
(***************************************************************************)
AskLookup(p, req) ==
  LET mode == ModeOf(req)
      gameId == Trim(OrElse(req.gameId, <<>>))
      dateKey == Trim(OrElse(req.dateKey, <<>>))
      question == Trim(OrElse(req.text, <<>>))
      pr == [IdleProc EXCEPT !.op = "ask", !.req = req, !.mode = mode, !.dateKey = dateKey,
                             !.gameId = gameId]
      k == profileKeyFor(mode, IF gameId # <<>> THEN gameId ELSE dateKey, Some(dateKey))
      got == kvGetJSON(store, k.key, now)
      seen == [pr EXCEPT !.key = k.key, !.kvReads = 1, !.readAt = now]
  IN  /\ procs[p].pc \in {"idle", "done"}
      /\ calls' = calls + 1
      /\ IF question = <<>>
         THEN /\ procs' = [procs EXCEPT ![p] = Answer(pr, 400, "Missing question", <<>>)]
              /\ UNCHANGED store
         ELSE IF mode = "daily" /\ dateKey = <<>>
         THEN /\ procs' = [procs EXCEPT ![p] =
                   Answer(pr, 400, "Missing dateKey for daily mode", <<>>)]
              /\ UNCHANGED store
         ELSE IF gameId = <<>> /\ mode # "daily"
         THEN /\ procs' = [procs EXCEPT ![p] = Answer(pr, 400, "Missing gameId", <<>>)]
              /\ UNCHANGED store
         ELSE IF ~k.ok
         THEN /\ procs' = [procs EXCEPT ![p] = Answer(pr, 500, "Failed to answer", <<>>)]
              /\ UNCHANGED store
         ELSE /\ store' = got.store
              /\ procs' = [procs EXCEPT ![p] =
                   IF got.value = <<>> THEN Answer(seen, 404, "Game not found", <<>>)
                   ELSE [seen EXCEPT !.pc = "call", !.existing = got.value]]
      /\ UNCHANGED <<env, now, ticks, uuidCount, firstCached, promised, lastStart, keyArgs,
                     sanitized, kvLog, hook>>

\* The backend call of ask and the answer
AskCall(p, reply) ==
  LET pr == procs[p]
      called == [pr EXCEPT !.genCalls = @ + 1]
  IN  /\ pr.op = "ask" /\ pr.pc = "call"
      /\ procs' = [procs EXCEPT ![p] =
           IF reply.kind = "throw"
           THEN Answer([called EXCEPT !.backendThrew = TRUE], 500, "Failed to answer", <<>>)
           ELSE Answer([called EXCEPT !.unparsed = ~reply.json], 200, "",
                       [answer |-> parseAnswerResponse(reply)])]
      /\ UNCHANGED <<env, now, ticks, store, uuidCount, calls, firstCached, promised,
                     lastStart, keyArgs, sanitized, kvLog, hook>>

(***************************************************************************)
(* A start and its follow-ups: client c1 starts games of either kind with  *)
(* date keys with and without white space around them, client c2 sends     *)
(* revise, simulate and ask for the game that the last start of c1         *)
(* answered, with the mode and the dateKey of that start and the gameId    *)
(* that it returned.                                                       *)
(***************************************************************************)
FollowStarts ==
  {[NoReq EXCEPT !.mode = m, !.dateKey = dk] :
     m \in {"daily", "debug-random"},
     dk \in {Undefined, Some(<<"d">>), Some(PadD), Some(<<" ">>)}}

\* The body of a follow-up for the game that the start of c1 answered
FollowUp ==
  [NoReq EXCEPT !.mode = procs["c1"].req.mode,
                !.dateKey = procs["c1"].req.dateKey,
                !.gameId = Some(procs["c1"].resp.body.gameId),
                !.inventionId = "A", !.text = Some(<<"x">>), !.investedUsd = Num(1)]

Started(op) ==
  /\ Quiet
  /\ procs["c1"].op = op /\ procs["c1"].resp.status = 200

AnswerReplyYes ==
  [kind |-> "text", json |-> TRUE, answer |-> Some(<<" ", "Y", "e", "s", ".", " ">>),
   matched |-> Undefined]

NextFollow ==
  \/ \E req \in FollowStarts : Quiet /\ StartBegin("c1", req)
  \/ StartRead("c1")
  \/ StartGen("c1", ReplyFull)
  \/ \E imgs \in ImageChoices : StartFinish("c1", imgs)
  \/ \E imgs \in ImageChoices : StartHit("c1", imgs)
  \/ \E req \in FollowStarts : Quiet /\ PgStartBegin("c1", req)
  \/ \E caseNumber \in CaseNumbers : PgStartRead("c1", caseNumber)
  \/ \E faceEmoji \in FaceEmojis, caseNumber \in CaseNumbers :
       PgStartGen("c1", "GOOD", faceEmoji, caseNumber, PgReplyFull)
  \/ Started("start") /\ ReviseLookup("c2", FollowUp)
  \/ ReviseCall("c2", ReviseReplyLabelled)
  \/ Started("start") /\ SimulateLookup("c2", FollowUp)
  \/ SimulateCall("c2", SimReplyHuge)
  \/ Started("pgstart") /\ AskLookup("c2", FollowUp)
  \/ \E reply \in {ReplyThrow, AnswerReplyYes} : AskCall("c2", reply)

SpecFollow == InitGames /\ [][NextFollow]_vars

\* ---------------------------------------------------------------------------
\* The follow-up of c2 was sent for the game that the start of c1 answered
FollowsStart ==
  /\ Done("c1") /\ procs["c1"].resp.status = 200
  /\ \/ procs["c1"].op = "start" /\ procs["c2"].op \in {"revise", "simulate"}
     \/ procs["c1"].op = "pgstart" /\ procs["c2"].op = "ask"
  /\ procs["c2"].pc \in {"call", "done"}
  /\ procs["c2"].req.mode = procs["c1"].req.mode
  /\ procs["c2"].req.dateKey = procs["c1"].req.dateKey
  /\ procs["c2"].req.gameId = Some(procs["c1"].resp.body.gameId)

\* C39 as stated: start and the follow-up handlers derive the same cache
\* key. A revise, simulate or ask that is given the mode and the dateKey of
\* a start that was answered, and the gameId that it returned, reads the
\* cache under the key under which that start stored.
C39_Original ==
  FollowsStart => (procs["c2"].kvReads = 1 /\ procs["c2"].key = procs["c1"].key)
\* caseNumberFromSeed: 1000 + (hash32(seed) % 9000)
caseNumberFromSeed(seed) == 1000 + Mod32(hash32(seed), 9000)

(***************************************************************************)
(* The daily profile of Pearly Gates: two clients start the game of a day, *)
(* the case number being the one of the seed. The time does not advance:   *)
(* what is cached stays cached.                                            *)
(***************************************************************************)
CaseStarts ==
  {[NoReq EXCEPT !.mode = m, !.dateKey = Some(dk)] :
     m \in {"daily", "debug-random"}, dk \in {<<"d">>, <<"e">>}}

\* The seed of the game that the handler of p serves
PgSeed(p) == IF procs[p].mode = "daily" THEN procs[p].dateKey ELSE procs[p].gameId

NextCase ==
  \E p \in Clients :
    \/ \E req \in CaseStarts : Quiet /\ PgStartBegin(p, req)
    \/ PgStartRead(p, caseNumberFromSeed(procs[p].dateKey))
    \/ \E alignment \in Alignments, faceEmoji \in FaceEmojis, reply \in PgReplies :
         PgStartGen(p, alignment, faceEmoji, caseNumberFromSeed(PgSeed(p)), reply)

SpecCase == InitGames /\ [][NextCase]_vars

\* ---------------------------------------------------------------------------
PgStartOk(p) ==
  /\ procs[p].op = "pgstart" /\ Done(p) /\ procs[p].resp.status = 200
  /\ procs[p].mode = "daily"

\* C40 as stated: the visible profile that the generating daily start of
\* Pearly Gates returns is the one that every later start for the same
\* dateKey returns while the profile stays cached, and the caseNumber of
\* every daily start response is caseNumberFromSeed(dateKey), a number in
\* 1000..9999.
C40_Original ==
  /\ \A p \in Clients, q \in Clients :
       (/\ PgStartOk(p) /\ ~procs[p].sawCached
        /\ PgStartOk(q) /\ procs[q].sawCached
        /\ procs[q].dateKey = procs[p].dateKey)
         => procs[q].resp.body.visible = procs[p].resp.body.visible
  /\ \A p \in Clients :
       PgStartOk(p) =>
         /\ procs[p].resp.body.visible.caseNumber
              = Some(caseNumberFromSeed(procs[p].dateKey))
         /\ caseNumberFromSeed(procs[p].dateKey) \in 1000..9999
====
